---- MODULE Spec2Model ----
(***************************************************************************)
(* Model of the Depends library: the Directed Acyclic Graph container      *)
(* (Depends::DAG, dag.hpp), its nodes (Depends::Details::Node) and the      *)
(* dependency tracker built on two DAGs (Depends::Depends, depends.hpp).    *)
(*                                                                         *)
(* A node is identified by its address on the free store; NodeIds is the   *)
(* set of addresses operator new can hand out, and the order of the ids is *)
(* the order of the addresses.  A score is an unsigned long: it is kept    *)
(* as the representative of its residue class that is nearest to zero, so  *)
(* that -1 stands for ULONG_MAX (see ScoreLess).                           *)
(*                                                                         *)
(* The asserts of the sources are compiled in (no NDEBUG): a failed assert  *)
(* ends the program.                                                       *)
(*                                                                         *)
(* An operator that needs an intermediate result more than once takes it   *)
(* as a parameter of a helper, so that every step of the source appears    *)
(* once in the text.                                                       *)
(***************************************************************************)
EXTENDS Integers, Sequences, FiniteSets, TLC

\* ---------------------------------------------------------------- bounds
\* number of addresses the free store hands out to the nodes of one DAG
MaxNodes == 3
\* the values a client stores are 1..MaxVal
MaxVal == 3
\* a call is not issued when it would make a targets_ vector longer
MaxTargets == 2
\* a call is not issued when it would take a score out of -MaxScore..MaxScore
MaxScore == 6
\* number of calls a client makes on a DAG after constructing it
MaxCalls == 3
\* number of calls a client makes on a tracker after constructing it
MaxTrackerCalls == 5
\* number of calls of a client that makes few calls on a tracker
MaxShortCalls == 4
\* number of calls a client makes on two DAGs after constructing them
MaxPairCalls == 2
\* number of calls of link a client makes step by step beside a second client
MaxStepCalls == 2

NodeIds == 1..MaxNodes
Values == 1..MaxVal

\* ------------------------------------------------------------ Details::Node
VISITED == 1

\* Node::Node(ValueType const &)
Node(v) == [targets_ |-> <<>>, value_ |-> v, score_ |-> 1, flags_ |-> 0]

\* unsigned comparison of two scores kept as nearest-to-zero representatives
ScoreLess(a, b) == IF (a < 0) = (b < 0) THEN a < b ELSE b < 0

\* Node::operator< : by score only
NodeLess(n, m) == ScoreLess(n.score_, m.score_)

RECURSIVE NodeEqual(_, _, _, _)
\* Node::operator== between node a of heap ha and node b of heap hb; the
\* targets_ are compared through indirect_iterator, that is node by node
NodeEqual(ha, a, hb, b) ==
    /\ ha[a].value_ = hb[b].value_
    /\ ha[a].score_ = hb[b].score_
    /\ Len(ha[a].targets_) = Len(hb[b].targets_)
    /\ \A i \in 1..Len(ha[a].targets_) :
          NodeEqual(ha, ha[a].targets_[i], hb, hb[b].targets_[i])

\* NodeEqualsValue that finds no node equal to a value
NodeNeverEqualsValue(n, v) == FALSE

\* *node == val : val is converted to a temporary Node(val)
NodeEqualsValue(n, v) ==
    /\ n.value_ = Node(v).value_
    /\ n.score_ = Node(v).score_
    /\ Len(n.targets_) = Len(Node(v).targets_)

\* ScopedFlagClear of a ScopedFlag whose destructor leaves the flag set
ScopedFlagLeft(heap, n) == heap

\* ScopedFlag: sets the flag on construction, clears it on destruction
ScopedFlagSet(heap, n) == [heap EXCEPT ![n].flags_ = VISITED]
ScopedFlagClear(heap, n) == [heap EXCEPT ![n].flags_ = 0]

\* the state of a visit: the nodes, whether CircularReference is thrown, and
\* the set the retrieveTargets lambda of the tracker fills
VisitState(heap) == [heap |-> heap, thrown |-> FALSE, seen |-> {}]

\* ApplyF with a functor that counts the visits instead of adding data
ApplyFByOne(st, n, f, data) ==
    CASE f = "inc" -> [st EXCEPT !.heap[n].score_ = @ + 1]
      [] f = "dec" -> [st EXCEPT !.heap[n].score_ = @ - 1]
      [] f = "retrieve" -> [st EXCEPT !.seen = @ \cup {st.heap[n].value_}]
      [] OTHER -> st

\* f(this, data) for the functors handed to Node::visit
ApplyF(st, n, f, data) ==
    CASE f = "inc" -> [st EXCEPT !.heap[n].score_ = @ + data]
      [] f = "dec" -> [st EXCEPT !.heap[n].score_ = @ - data]
      [] f = "retrieve" -> [st EXCEPT !.seen = @ \cup {st.heap[n].value_}]
      [] OTHER -> st

RECURSIVE visit(_, _, _, _)
RECURSIVE visitTargets(_, _, _, _, _)
\* Node::visit(F f, D data) on node n
visit(st, n, f, data) ==
    IF st.heap[n].flags_ = VISITED
    THEN [st EXCEPT !.thrown = TRUE]
    ELSE [visitTargets([ApplyF(st, n, f, data) EXCEPT !.heap = ScopedFlagSet(@, n)],
                       n, 1, f, data)
            EXCEPT !.heap = ScopedFlagClear(@, n)]

\* the loop over targets_ inside Node::visit, from index i on
visitTargets(st, n, i, f, data) ==
    IF st.thrown \/ i > Len(st.heap[n].targets_)
    THEN st
    ELSE visitTargets(visit(st, st.heap[n].targets_[i], f, data), n, i + 1, f, data)

\* ------------------------------------------------------------------- DAG
\* a DAG is its vector nodes_ of node addresses and the nodes on the heap
EmptyDAG == [nodes_ |-> <<>>, heap |-> <<>>]

\* position of the first node whose value is v, 0 for end()
find(d, v) ==
    IF \E i \in 1..Len(d.nodes_) : d.heap[d.nodes_[i]].value_ = v
    THEN CHOOSE i \in 1..Len(d.nodes_) :
            /\ d.heap[d.nodes_[i]].value_ = v
            /\ \A j \in 1..(i - 1) : d.heap[d.nodes_[j]].value_ # v
    ELSE 0

\* all orders std::sort may leave a vector in, for a comparison given as the
\* set less of the pairs <<a, b>> with a before b
SortOutcomes(seq, less) ==
    { p \in [1..Len(seq) -> {seq[i] : i \in 1..Len(seq)}] :
        /\ \A i, j \in 1..Len(seq) : i # j => p[i] # p[j]
        /\ \A i, j \in 1..Len(seq) : i < j => <<p[j], p[i]>> \notin less }

\* SortByScore that leaves the vector as it is
SortNothing(seq, heap) == {seq}

\* std::sort(nodes_.begin(), nodes_.end(), by score_): equal scores end in any order
SortByScore(seq, heap) ==
    SortOutcomes(seq, { ab \in (DOMAIN heap) \X (DOMAIN heap) : NodeLess(heap[ab[1]], heap[ab[2]]) })

\* the order std::sort(nodes_.begin(), nodes_.end()) leaves a vector of node
\* pointers in: ascending addresses
SortByAddress(seq) ==
    CHOOSE p \in SortOutcomes(seq, { ab \in Nat \X Nat : ab[1] < ab[2] }) : TRUE

\* DAG::insert(const value_type &), the new node allocated at address id
insert(d, val, id) ==
    IF \A i \in 1..Len(d.nodes_) : ~NodeEqualsValue(d.heap[d.nodes_[i]], val)
    THEN [rv |-> TRUE,
          dag |-> [nodes_ |-> <<id>> \o d.nodes_, heap |-> d.heap @@ (id :> Node(val))]]
    ELSE [rv |-> FALSE, dag |-> d]

\* the results DAG::insert(val) may have: operator new returns any free address
insertOutcomes(d, val) ==
    { insert(d, val, id) :
        id \in IF \A i \in 1..Len(d.nodes_) : ~NodeEqualsValue(d.heap[d.nodes_[i]], val)
               THEN NodeIds \ DOMAIN d.heap ELSE {0} }

RECURSIVE insertRange(_, _)
\* DAG::insert(first, last) / DAG::DAG(first, last): the DAGs that inserting
\* the values of seq one by one into a DAG of ds may give
insertRange(ds, seq) ==
    IF seq = <<>> THEN ds
    ELSE insertRange(UNION { { r.dag : r \in insertOutcomes(d, Head(seq)) } : d \in ds },
                     Tail(seq))

\* DAG::link(iterator, iterator), end: the scores are propagated (prop), the
\* vector is sorted by score
linkSorted(d, prop) ==
    IF prop.thrown
    THEN [thrown |-> TRUE, dags |-> {[d EXCEPT !.heap = prop.heap]}]
    ELSE [thrown |-> FALSE,
          dags |-> { [nodes_ |-> p, heap |-> prop.heap] : p \in SortByScore(d.nodes_, prop.heap) }]

\* linkChecked without the check: the edge is pushed whatever the visit found
linkUnchecked(d, s, t, chk) ==
    linkSorted(d, visit(VisitState([ScopedFlagClear(chk.heap, s)
                                      EXCEPT ![s].targets_ = Append(@, t)]),
                        t, "inc", chk.heap[s].score_))

\* linkChecked with the edge pushed before the check, and left when it throws
linkPushedFirst(d, s, t, chk) ==
    IF chk.thrown
    THEN [thrown |-> TRUE,
          dags |-> {[d EXCEPT !.heap = [ScopedFlagClear(chk.heap, s)
                                          EXCEPT ![s].targets_ = Append(@, t)]]}]
    ELSE linkSorted(d, visit(VisitState([ScopedFlagClear(chk.heap, s)
                                           EXCEPT ![s].targets_ = Append(@, t)]),
                             t, "inc", chk.heap[s].score_))

\* DAG::link(iterator, iterator), middle: the visit chk from the target has
\* ended and the flag on the source is cleared; unless it has thrown, the
\* edge is pushed and the score of the source is added along the targets
linkChecked(d, s, t, chk) ==
    IF chk.thrown
    THEN [thrown |-> TRUE, dags |-> {[d EXCEPT !.heap = ScopedFlagClear(chk.heap, s)]}]
    ELSE linkSorted(d, visit(VisitState([ScopedFlagClear(chk.heap, s)
                                           EXCEPT ![s].targets_ = Append(@, t)]),
                             t, "inc", chk.heap[s].score_))

\* link with the roles of the two nodes exchanged in the check, as linked has
\* them: the target is flagged and the visit starts from the source
linkChecksReverse(d, s, t) ==
    linkChecked(d, s, t,
                [visit(VisitState(ScopedFlagSet(d.heap, t)), s, "none", 0)
                    EXCEPT !.heap = ScopedFlagClear(@, t)])

\* DAG::link(iterator, iterator) for the nodes s and t; dags holds every
\* DAG the call may leave behind
link(d, s, t) ==
    linkChecked(d, s, t, visit(VisitState(ScopedFlagSet(d.heap, s)), t, "none", 0))

\* linked that looks at the targets of the source only
linkedDirectly(d, s, t) == \E i \in 1..Len(d.heap[s].targets_) : d.heap[s].targets_[i] = t

\* DAG::linked(iterator, iterator)
linked(d, s, t) ==
    visit(VisitState(ScopedFlagSet(d.heap, t)), s, "none", 0).thrown

\* the DAG that DAG::linked(iterator, iterator) leaves behind: the nodes as
\* the visit left them, the scoped flag on the target cleared
linkedLeaves(d, s, t) ==
    [d EXCEPT !.heap = ScopedFlagClear(visit(VisitState(ScopedFlagSet(d.heap, t)),
                                             s, "none", 0).heap, t)]

\* EraseFirst that finds the target and erases nothing
EraseNone(seq, t) == seq

\* targets_.erase(std::find(targets_.begin(), targets_.end(), t))
EraseFirst(seq, t) ==
    IF \E i \in 1..Len(seq) : seq[i] = t
    THEN SubSeq(seq, 1, (CHOOSE i \in 1..Len(seq) :
                            seq[i] = t /\ \A j \in 1..(i - 1) : seq[j] # t) - 1)
         \o SubSeq(seq, (CHOOSE i \in 1..Len(seq) :
                            seq[i] = t /\ \A j \in 1..(i - 1) : seq[j] # t) + 1, Len(seq))
    ELSE seq

\* DAG::unlink(iterator, iterator), end: the scores are taken back (prop),
\* the vector is sorted, rv is returned
unlinkSorted(d, rv, prop) ==
    IF prop.thrown
    THEN [thrown |-> TRUE, rv |-> rv, dag |-> [d EXCEPT !.heap = prop.heap]]
    ELSE [thrown |-> FALSE, rv |-> rv,
          dag |-> [nodes_ |-> SortByAddress(d.nodes_), heap |-> prop.heap]]

\* unlink that erases the edge and takes no score back
unlinkKeepsScores(d, s, t) ==
    unlinkSorted(d, \E i \in 1..Len(d.heap[s].targets_) : d.heap[s].targets_[i] = t,
                 VisitState([d.heap EXCEPT ![s].targets_ = EraseFirst(@, t)]))

\* DAG::unlink(iterator, iterator) for the nodes s and t
unlink(d, s, t) ==
    unlinkSorted(d, \E i \in 1..Len(d.heap[s].targets_) : d.heap[s].targets_[i] = t,
                 visit(VisitState([d.heap EXCEPT ![s].targets_ = EraseFirst(@, t)]),
                       t, "dec", d.heap[s].score_))

RECURSIVE eraseTargets(_, _)
\* the while loop of DAG::erase(iterator), after the unlink u of one pass.
\* A pass that removes no edge and leaves the vector as it was is repeated
\* for ever: "hang".
eraseUnlinked(d, pos, u) ==
    IF u.thrown THEN [rv |-> "CircularReference", dag |-> u.dag]
    ELSE IF ~u.rv /\ u.dag.nodes_ = d.nodes_ THEN [rv |-> "hang", dag |-> u.dag]
    ELSE eraseTargets(u.dag, pos)

\* unlink(where, value) of DAG::erase(iterator): DAG::unlink(iterator,
\* value_type), ti the position std::find gives for the value
eraseUnlink(d, pos, ti) ==
    IF ti = 0 THEN [rv |-> "value not found", dag |-> d]
    ELSE eraseUnlinked(d, pos, unlink(d, d.nodes_[pos], d.nodes_[ti]))

\* the while loop of DAG::erase(iterator) for the iterator at position pos:
\* unlink(where, where.node()->targets_[0]->value_) until the node where
\* points at has no targets
eraseTargets(d, pos) ==
    IF d.heap[d.nodes_[pos]].targets_ = <<>> THEN [rv |-> "ok", dag |-> d]
    ELSE eraseUnlink(d, pos, find(d, d.heap[d.heap[d.nodes_[pos]].targets_[1]].value_))

\* Unlinker / the lambda of DAG::erase: drop every edge to target
RemoveAll(seq, target) == SelectSeq(seq, LAMBDA x : x # target)

\* DAG::erase(iterator), end: the edges to the node at pos are dropped, the
\* node is deleted and taken out of nodes_
eraseNode(d, pos) ==
    [nodes_ |-> SubSeq(d.nodes_, 1, pos - 1) \o SubSeq(d.nodes_, pos + 1, Len(d.nodes_)),
     heap |-> [n \in DOMAIN d.heap \ {d.nodes_[pos]} |->
                 [d.heap[n] EXCEPT !.targets_ = RemoveAll(@, d.nodes_[pos])]]]

\* the calls that do not return: one that loops for ever, one that ends the
\* program, one that fails an assert
NoReturn == {"hang", "crash", "assertion failed"}

\* what a build makes of the undefined behaviour below
UndefinedOutcomes == {"hang", "crash"}

\* The lambda of DAG::erase keeps the end() of targets_ it took before the
\* loop; targets_.erase(which) invalidates it.  When the element erased is
\* the last of the vector, which is then the new end(), differs from the
\* old one and is dereferenced and erased again: undefined behaviour.
StaleEnd(d, target) ==
    \E n \in DOMAIN d.heap :
        /\ d.heap[n].targets_ # <<>>
        /\ d.heap[n].targets_[Len(d.heap[n].targets_)] = target

\* DAG::erase(iterator) once the loop ended as l; ub is what the build makes
\* of the undefined behaviour
eraseLooped(l, pos, ub) ==
    IF l.rv # "ok" THEN l
    ELSE IF StaleEnd(l.dag, l.dag.nodes_[pos]) THEN [rv |-> ub, dag |-> l.dag]
    ELSE [rv |-> "ok", dag |-> eraseNode(l.dag, pos)]

\* DAG::erase(iterator) for the iterator at position pos
erase(d, pos, ub) == eraseLooped(eraseTargets(d, pos), pos, ub)

\* DAG::erase(iterator, iterator) for the positions first..last-1: the nodes
\* are deleted and taken out of nodes_, the targets_ of the others are not
\* touched
eraseRange(d, first, last) ==
    [nodes_ |-> SubSeq(d.nodes_, 1, first - 1) \o SubSeq(d.nodes_, last, Len(d.nodes_)),
     heap |-> [n \in DOMAIN d.heap \ { d.nodes_[i] : i \in first..(last - 1) } |-> d.heap[n]]]

\* DAG::clear()
clear(d) == eraseRange(d, 1, Len(d.nodes_) + 1)

\* the pointers the targets_ of the nodes of d hold to nodes that are deleted
Dangling(d) ==
    UNION { { d.heap[n].targets_[i] : i \in 1..Len(d.heap[n].targets_) } : n \in DOMAIN d.heap }
        \ DOMAIN d.heap

\* DAG::link(value_type, value_type) when both values are found: l is what
\* link(iterator, iterator) gave for the nodes s and t
linkResult(s, t, l) ==
    [rv |-> IF l.thrown THEN "CircularReference" ELSE "ok",
     src |-> s, tgt |-> t, dags |-> l.dags]

\* DAG::link(value_type, value_type), si and ti the positions std::find gives
linkFound(d, si, ti) ==
    IF si = 0 \/ ti = 0
    THEN [rv |-> "value not found", src |-> 0, tgt |-> 0, dags |-> {d}]
    ELSE linkResult(d.nodes_[si], d.nodes_[ti], link(d, d.nodes_[si], d.nodes_[ti]))

\* DAG::link(value_type, value_type)
linkValue(d, sv, tv) == linkFound(d, find(d, sv), find(d, tv))

\* DAG::unlink(value_type, value_type) when both values are found: u is what
\* unlink(iterator, iterator) gave for the nodes s and t
unlinkResult(s, t, u) ==
    [rv |-> IF u.thrown THEN "CircularReference" ELSE IF u.rv THEN "true" ELSE "false",
     src |-> s, tgt |-> t, dag |-> u.dag]

\* unlinkFound that looks for the source only: an absent target is a node
\* that is not linked
unlinkFoundSourceOnly(d, si, ti) ==
    IF si = 0 THEN [rv |-> "value not found", src |-> 0, tgt |-> 0, dag |-> d]
    ELSE IF ti = 0 THEN [rv |-> "false", src |-> d.nodes_[si], tgt |-> 0, dag |-> d]
    ELSE unlinkResult(d.nodes_[si], d.nodes_[ti], unlink(d, d.nodes_[si], d.nodes_[ti]))

\* DAG::unlink(value_type, value_type), si and ti the positions std::find gives
unlinkFound(d, si, ti) ==
    IF si = 0 \/ ti = 0
    THEN [rv |-> "value not found", src |-> 0, tgt |-> 0, dag |-> d]
    ELSE unlinkResult(d.nodes_[si], d.nodes_[ti], unlink(d, d.nodes_[si], d.nodes_[ti]))

\* DAG::unlink(value_type, value_type)
unlinkValue(d, sv, tv) == unlinkFound(d, find(d, sv), find(d, tv))

\* DAG::linked(value_type, value_type), si and ti the positions std::find gives
linkedFound(d, si, ti) ==
    IF si = 0 \/ ti = 0 THEN FALSE ELSE linked(d, d.nodes_[si], d.nodes_[ti])

\* DAG::linked(value_type, value_type)
linkedValue(d, sv, tv) == linkedFound(d, find(d, sv), find(d, tv))

\* DAG::operator== : the sizes, then std::equal over the nodes in the order
\* of nodes_
DAGEqual(a, b) ==
    /\ Len(a.nodes_) = Len(b.nodes_)
    /\ \A i \in 1..Len(a.nodes_) : NodeEqual(a.heap, a.nodes_[i], b.heap, b.nodes_[i])

RECURSIVE CompareNodesByContents(_, _, _, _)
RECURSIVE LexicographicalCompare(_, _, _, _, _)
\* CompareNodesByContents::operator()(lhs, rhs) for node l of heap hl and
\* node r of heap hr: by score, then by value, then the targets
CompareNodesByContents(hl, l, hr, r) ==
    IF NodeLess(hl[l], hr[r]) THEN TRUE
    ELSE IF hl[l].value_ < hr[r].value_ THEN TRUE
    ELSE LexicographicalCompare(hl, hl[l].targets_, hr, hr[r].targets_, 1)

\* std::lexicographical_compare with CompareNodesByContents over the nodes of
\* s1 and s2, from index i on
LexicographicalCompare(h1, s1, h2, s2, i) ==
    IF i > Len(s1) \/ i > Len(s2) THEN i > Len(s1) /\ i <= Len(s2)
    ELSE IF CompareNodesByContents(h1, s1[i], h2, s2[i]) THEN TRUE
    ELSE IF CompareNodesByContents(h2, s2[i], h1, s1[i]) THEN FALSE
    ELSE LexicographicalCompare(h1, s1, h2, s2, i + 1)

\* DAG::operator<
DAGLess(a, b) == LexicographicalCompare(a.heap, a.nodes_, b.heap, b.nodes_, 1)

\* the place of node n in nodes_: the order in which an archive meets the
\* nodes of a DAG, and so the object id it gives them
position(d, n) == CHOOSE i \in 1..Len(d.nodes_) : d.nodes_[i] = n

\* DAG::serialize / Node::serialize to an output archive: nodes_ in order,
\* each node as its targets_, value_, score_ and flags_, a pointer to a node
\* written as the object id of the node
serialize(d) ==
    [i \in 1..Len(d.nodes_) |->
        [targets_ |-> [k \in 1..Len(d.heap[d.nodes_[i]].targets_) |->
                          position(d, d.heap[d.nodes_[i]].targets_[k])],
         value_ |-> d.heap[d.nodes_[i]].value_,
         score_ |-> d.heap[d.nodes_[i]].score_,
         flags_ |-> d.heap[d.nodes_[i]].flags_]]

\* the node an input archive makes of the record nd: the object ids of its
\* targets become the addresses alloc gave to the objects
loadedNode(nd, alloc) ==
    [targets_ |-> [k \in 1..Len(nd.targets_) |-> alloc[nd.targets_[k]]],
     value_ |-> nd.value_,
     score_ |-> nd.score_,
     flags_ |-> nd.flags_]

\* DAG::serialize / Node::serialize from an input archive ar into an empty
\* DAG, operator new giving the address alloc[i] to the node of object id i:
\* no link is called
deserialize(ar, alloc) ==
    [nodes_ |-> [i \in 1..Len(ar) |-> alloc[i]],
     heap |-> [a \in { alloc[i] : i \in 1..Len(ar) } |->
                 loadedNode(ar[CHOOSE i \in 1..Len(ar) : alloc[i] = a], alloc)]]

\* the addresses operator new may give to n nodes
Allocations(n) ==
    { alloc \in [1..n -> NodeIds] : \A i, j \in 1..n : i # j => alloc[i] # alloc[j] }

\* a DAG inside the bounds of the model
InBounds(d) ==
    \A n \in DOMAIN d.heap :
        /\ Len(d.heap[n].targets_) <= MaxTargets
        /\ d.heap[n].score_ \in (0 - MaxScore)..MaxScore

\* ---------------------------------------------------------------- Depends
\* The storage_ of a tracker is a std::set: storage_[c] is the value of the
\* element at address c, and a storage iterator, like the pointer getPointer
\* makes of it, is that address.  0 is end() and the null selected_.
Cells == 1..(MaxVal + 2 * MaxNodes + 1)

EmptyTracker ==
    [storage_ |-> <<>>, dependants_ |-> EmptyDAG, prerequisites_ |-> EmptyDAG, selected_ |-> 0]

\* Depends::find(v)
findValue(t, v) ==
    IF \E c \in DOMAIN t.storage_ : t.storage_[c] = v
    THEN CHOOSE c \in DOMAIN t.storage_ : t.storage_[c] = v
    ELSE 0

\* the pointers a DAG of aliases still holds
Aliases(d) == { d.heap[n].value_ : n \in DOMAIN d.heap }

\* the addresses a DAG holds although their elements are gone
Stale(t) == (Aliases(t.dependants_) \cup Aliases(t.prerequisites_)) \ DOMAIN t.storage_

\* the addresses the allocator of storage_ may return for a new element: one
\* that a DAG still holds although its element is gone, or one never seen
\* (any two of these behave alike, the lowest stands for them)
NewCells(t) ==
    Stale(t) \cup { c \in Cells \ (DOMAIN t.storage_ \cup Stale(t)) :
                     \A e \in Cells \ (DOMAIN t.storage_ \cup Stale(t)) : c <= e }

\* Depends::insert(const value_type &): the set of [rv, where, t] it may give
trackerInsert(t, v) ==
    IF findValue(t, v) # 0
    THEN { [rv |-> FALSE, where |-> findValue(t, v), t |-> t] }
    ELSE UNION { { [rv |-> TRUE, where |-> c,
                    t |-> [t EXCEPT !.storage_ = @ @@ (c :> v),
                                    !.prerequisites_ = p.dag,
                                    !.dependants_ = d.dag]] :
                   p \in insertOutcomes(t.prerequisites_, c),
                   d \in insertOutcomes(t.dependants_, c) } : c \in NewCells(t) }

RECURSIVE trackerInsertRange(_, _)
\* Depends::insert(begin, end) / Depends::Depends(begin, end)
trackerInsertRange(ts, seq) ==
    IF seq = <<>> THEN ts
    ELSE trackerInsertRange(UNION { { r.t : r \in trackerInsert(t, Head(seq)) } : t \in ts },
                            Tail(seq))

\* clearSelection that leaves the selection standing
clearSelectionSkipped(t) == t

\* Depends::clearSelection()
clearSelection(t) == [t EXCEPT !.selected_ = 0]

\* select that clears the selection and sets none
selectNothing(t, what) == [rv |-> "ok", t |-> clearSelection(t)]

\* Depends::select(const_iterator)
select(t, what) ==
    IF what = 0
    THEN [rv |-> "Cannot select end", t |-> clearSelection(t)]
    ELSE [rv |-> "ok", t |-> [clearSelection(t) EXCEPT !.selected_ = what]]

\* Depends::select(const value_type &)
selectValue(t, v) == { select(r.t, r.where) : r \in trackerInsert(t, v) }

\* Depends::addPrerequisite(const_iterator): r1 is what prerequisites_.link
\* gives, r2 what dependants_.link gives when it is reached
addPrerequisiteLinked(t, r1, r2) ==
    IF r1.rv # "ok"
    THEN { [rv |-> r1.rv, t |-> [t EXCEPT !.prerequisites_ = d1]] : d1 \in r1.dags }
    ELSE { [rv |-> r2.rv, t |-> [t EXCEPT !.prerequisites_ = d1, !.dependants_ = d2]] :
             d1 \in r1.dags, d2 \in r2.dags }

\* Depends::addPrerequisite(const_iterator)
addPrerequisite(t, whence) ==
    addPrerequisiteLinked(t, linkValue(t.prerequisites_, t.selected_, whence),
                             linkValue(t.dependants_, whence, t.selected_))

\* Depends::addPrerequisite(const value_type &)
addPrerequisiteValue(t, v) ==
    UNION { addPrerequisite(r.t, r.where) : r \in trackerInsert(t, v) }

\* Depends::addDependant(const_iterator): r1 is what dependants_.link gives,
\* r2 what prerequisites_.link gives when it is reached
addDependantLinked(t, r1, r2) ==
    IF r1.rv # "ok"
    THEN { [rv |-> r1.rv, t |-> [t EXCEPT !.dependants_ = d1]] : d1 \in r1.dags }
    ELSE { [rv |-> r2.rv, t |-> [t EXCEPT !.dependants_ = d1, !.prerequisites_ = d2]] :
             d1 \in r1.dags, d2 \in r2.dags }

\* Depends::addDependant(const_iterator)
addDependant(t, whence) ==
    addDependantLinked(t, linkValue(t.dependants_, t.selected_, whence),
                          linkValue(t.prerequisites_, whence, t.selected_))

\* Depends::addDependant(const value_type &)
addDependantValue(t, v) ==
    UNION { addDependant(r.t, r.where) : r \in trackerInsert(t, v) }

\* removePrerequisiteUnlinked without the comparison of whence with end()
removePrerequisiteOfEnd(t, whence, was_prereq, was_dep) ==
    IF was_prereq.rv \notin {"true", "false"}
    THEN [rv |-> was_prereq.rv, t |-> [t EXCEPT !.prerequisites_ = was_prereq.dag]]
    ELSE [rv |-> "ok",
          t |-> [t EXCEPT !.prerequisites_ = was_prereq.dag, !.dependants_ = was_dep.dag]]

\* Depends::removePrerequisite(const_iterator): was_prereq is what
\* prerequisites_.unlink gives, was_dep what dependants_.unlink gives when it
\* is reached; then the assert
removePrerequisiteUnlinked(t, whence, was_prereq, was_dep) ==
    IF whence = 0 THEN [rv |-> "ok", t |-> t]
    ELSE IF was_prereq.rv \notin {"true", "false"}
    THEN [rv |-> was_prereq.rv, t |-> [t EXCEPT !.prerequisites_ = was_prereq.dag]]
    ELSE [rv |-> IF was_dep.rv \notin {"true", "false"} THEN was_dep.rv
                 ELSE IF was_dep.rv # was_prereq.rv THEN "assertion failed" ELSE "ok",
          t |-> [t EXCEPT !.prerequisites_ = was_prereq.dag, !.dependants_ = was_dep.dag]]

\* Depends::removePrerequisite(const_iterator)
removePrerequisite(t, whence) ==
    removePrerequisiteUnlinked(t, whence,
                               unlinkValue(t.prerequisites_, t.selected_, whence),
                               unlinkValue(t.dependants_, whence, t.selected_))

\* Depends::removeDependant(const_iterator): r1 is what dependants_.unlink
\* gives, r2 what prerequisites_.unlink gives when it is reached
removeDependantUnlinked(t, whence, r1, r2) ==
    IF whence = 0 THEN [rv |-> "ok", t |-> t]
    ELSE IF r1.rv \notin {"true", "false"}
    THEN [rv |-> r1.rv, t |-> [t EXCEPT !.dependants_ = r1.dag]]
    ELSE [rv |-> IF r2.rv \notin {"true", "false"} THEN r2.rv ELSE "ok",
          t |-> [t EXCEPT !.dependants_ = r1.dag, !.prerequisites_ = r2.dag]]

\* Depends::removeDependant(const_iterator)
removeDependant(t, whence) ==
    removeDependantUnlinked(t, whence,
                            unlinkValue(t.dependants_, t.selected_, whence),
                            unlinkValue(t.prerequisites_, whence, t.selected_))

\* Depends::erase(iterator) after dependants_.erase(whence) gave e
erasedFromDependants(t, e) ==
    [rv |-> e.rv, t |-> [t EXCEPT !.dependants_ = e.dag], found_in_blockers |-> TRUE]

\* Depends::erase(iterator), the part about dependants_: the alias is erased
\* when std::find finds it, at position pos.  Gives [rv, t, found_in_blockers].
eraseFromDependants(t, pos, ub) ==
    IF pos = 0
    THEN [rv |-> "ok", t |-> t, found_in_blockers |-> FALSE]
    ELSE erasedFromDependants(t, erase(t.dependants_, pos, ub))

\* Depends::erase(iterator) after prerequisites_.erase(whence) gave e: the
\* assert(found_in_blockers)
erasedFromPrerequisites(r, e) ==
    [rv |-> IF e.rv # "ok" THEN e.rv
            ELSE IF r.found_in_blockers THEN "ok" ELSE "assertion failed",
     t |-> [r.t EXCEPT !.prerequisites_ = e.dag],
     found_in_blockers |-> r.found_in_blockers]

\* Depends::erase(iterator), the part about prerequisites_: the alias is
\* erased when std::find finds it, at position pos; else the
\* assert(!found_in_blockers)
eraseFromPrerequisites(r, pos, ub) ==
    IF r.rv # "ok" THEN r
    ELSE IF pos = 0
    THEN [r EXCEPT !.rv = IF r.found_in_blockers THEN "assertion failed" ELSE "ok"]
    ELSE erasedFromPrerequisites(r, erase(r.t.prerequisites_, pos, ub))

\* Depends::erase(iterator), the end: storage_.erase(where)
eraseFromStorage(r, where) ==
    IF r.rv # "ok" THEN r
    ELSE [r EXCEPT !.t.storage_ = [c \in DOMAIN @ \ {where} |-> @[c]]]

\* Depends::erase(iterator)
trackerErase(t, where, ub) ==
    eraseFromStorage(
        eraseFromPrerequisites(
            eraseFromDependants(IF where = t.selected_ THEN clearSelection(t) ELSE t,
                                find(t.dependants_, where), ub),
            find(t.prerequisites_, where), ub),
        where)

\* begin() of storage_, a std::set: the element with the least value
begin(t) ==
    CHOOSE c \in DOMAIN t.storage_ : \A e \in DOMAIN t.storage_ : t.storage_[c] <= t.storage_[e]

RECURSIVE trackerEraseRange(_, _)
\* the loop of Depends::erase(begin, end) after erase(where++) gave r: a
\* call that threw or did not return ends the loop
trackerErasedOne(r, ub) ==
    IF r.rv # "ok" THEN [rv |-> r.rv, t |-> r.t] ELSE trackerEraseRange(r.t, ub)

\* Depends::erase(begin(), end()): erase(where++) for every element of the
\* store in turn
trackerEraseRange(t, ub) ==
    IF DOMAIN t.storage_ = {} THEN [rv |-> "ok", t |-> t]
    ELSE trackerErasedOne(trackerErase(t, begin(t), ub), ub)

\* Depends::clear()
trackerClear(t) ==
    [clearSelection(t) EXCEPT !.dependants_ = clear(@), !.prerequisites_ = clear(@),
                              !.storage_ = <<>>]

\* the assertion inside Depends::depends(const_iterator, const_iterator)
dependsAssertion(t, target, source) ==
    linkedValue(t.dependants_, source, target) = linkedValue(t.prerequisites_, target, source)

\* Depends::depends(const_iterator, const_iterator)
depends(t, target, source) ==
    IF target = 0 \/ source = 0 THEN FALSE
    ELSE linkedValue(t.dependants_, source, target)

\* Depends::depends(const value_type &, const value_type &)
dependsValue(t, target, source) == depends(t, findValue(t, target), findValue(t, source))

\* what getPrerequisites and getDependants come to: CircularReference is
\* thrown, or the program ends, or the set retval is returned
QueryResult(thrown, crashed, retval) ==
    [thrown |-> thrown, crashed |-> crashed, retval |-> retval]

\* what a build makes of a query that dereferences end(), a null selected_
\* or the alias of an element that is gone: it ends the program, or returns
\* whatever the memory read holds
UndefinedResults ==
    {QueryResult(FALSE, TRUE, {})} \cup { QueryResult(FALSE, FALSE, S) : S \in SUBSET Values }

\* the std::copy through indirect_iterator / *((*where)->value_): the
\* aliases are dereferenced
dereferenced(t, aliases, ub) ==
    IF aliases \subseteq DOMAIN t.storage_
    THEN QueryResult(FALSE, FALSE, { t.storage_[c] : c \in aliases })
    ELSE ub

\* the else branch of getPrerequisites / getDependants: the values of the
\* targets of the selected node n
directTargets(d, n) ==
    { d.heap[d.heap[n].targets_[i]].value_ : i \in 1..Len(d.heap[n].targets_) }

\* the aliases getPrerequisites / getDependants collect from node n of d:
\* with all, every target is visited with the retrieveTargets lambda
retrieveTargets(d, n, all) ==
    IF all THEN visitTargets(VisitState(d.heap), n, 1, "retrieve", 0)
    ELSE [VisitState(d.heap) EXCEPT !.seen = directTargets(d, n)]

\* getPrerequisites / getDependants once the aliases are collected as st:
\* the result, and the nodes of the DAG after the call
retrieved(t, st, ub) ==
    [rv |-> IF st.thrown THEN QueryResult(TRUE, FALSE, {}) ELSE dereferenced(t, st.seen, ub),
     heap |-> st.heap]

\* getPrerequisites / getDependants on the DAG d, pos the position std::find
\* gives for the alias of the selection; selected.node() of end() is undefined
selectedNode(t, d, pos, all, ub) ==
    IF pos = 0 THEN [rv |-> ub, heap |-> d.heap]
    ELSE retrieved(t, retrieveTargets(d, d.nodes_[pos], all), ub)

\* Depends::getPrerequisites(bool all): [rv, heap], heap the nodes of
\* prerequisites_ after the call
getPrerequisites(t, all, ub) ==
    selectedNode(t, t.prerequisites_, find(t.prerequisites_, t.selected_), all, ub)

\* Depends::getDependants(bool all): [rv, heap], heap the nodes of
\* dependants_ after the call
getDependants(t, all, ub) ==
    selectedNode(t, t.dependants_, find(t.dependants_, t.selected_), all, ub)

\* the object id an archive gives to the element at address c of storage_:
\* its place in the order of the set
rank(t, c) == Cardinality({ e \in DOMAIN t.storage_ : t.storage_[e] <= t.storage_[c] })

\* DAG< pointer >::serialize to an output archive for the DAG d of the
\* tracker t: value_, a pointer to an element of storage_, is written as
\* the object id of the element
serializeAliases(t, d) ==
    [i \in 1..Len(d.nodes_) |-> [serialize(d)[i] EXCEPT !.value_ = rank(t, @)]]

\* Depends::serialize to an output archive: storage_, dependants_ and
\* prerequisites_; selected_ is not written
trackerSerialize(t) ==
    [storage_ |-> [i \in 1..Cardinality(DOMAIN t.storage_) |->
                     t.storage_[CHOOSE c \in DOMAIN t.storage_ : rank(t, c) = i]],
     dependants_ |-> serializeAliases(t, t.dependants_),
     prerequisites_ |-> serializeAliases(t, t.prerequisites_)]

\* Depends::serialize from the input archive ar into an empty tracker: the
\* element of object id i is loaded at address i of the new store, and the
\* object id in a value_ becomes that address; allocD and allocP are the
\* addresses of the nodes of the two DAGs
trackerDeserialize(ar, allocD, allocP) ==
    [storage_ |-> [c \in 1..Len(ar.storage_) |-> ar.storage_[c]],
     dependants_ |-> deserialize(ar.dependants_, allocD),
     prerequisites_ |-> deserialize(ar.prerequisites_, allocP),
     selected_ |-> 0]

\* a tracker inside the bounds of the model
TrackerInBounds(t) == InBounds(t.dependants_) /\ InBounds(t.prerequisites_)

\* ------------------------------------------------------------------ state
VARIABLES
    dag,            \* a DAG<int> used on its own
    storage_,       \* Depends::storage_
    dependants_,    \* Depends::dependants_
    prerequisites_, \* Depends::prerequisites_
    selected_,      \* Depends::selected_
    last,           \* the last call and how it ended
    calls,          \* number of calls made since construction
    other,          \* a second DAG<int>, the one dag is compared with
    run             \* the call of link that is under way on dag, and a second client

trackerVars == <<storage_, dependants_, prerequisites_, selected_>>
vars == <<dag, storage_, dependants_, prerequisites_, selected_, last, calls, other, run>>

\* the tracker as one record
deps ==
    [storage_ |-> storage_, dependants_ |-> dependants_,
     prerequisites_ |-> prerequisites_, selected_ |-> selected_]

Call(op, val, src, tgt, rv) == [op |-> op, val |-> val, src |-> src, tgt |-> tgt, rv |-> rv]

\* no call is under way: pc is the place the call of link has reached, src
\* and tgt its nodes, data the score handed to visit, enter the node visit
\* is about to be called on, stack the calls of visit that are open, each
\* with its node and the index of the target it comes to next; locking says
\* whether the clients take a lock around each call, lock who holds it, and
\* seen is what the second client read last
NoCall(locking) ==
    [pc |-> "idle", src |-> 0, tgt |-> 0, data |-> 0, enter |-> 0, stack |-> <<>>,
     locking |-> locking, lock |-> "free", seen |-> <<>>]

\* the tracker is t
IsTracker(t) ==
    /\ storage_ = t.storage_
    /\ dependants_ = t.dependants_
    /\ prerequisites_ = t.prerequisites_
    /\ selected_ = t.selected_

\* a call that does not return leaves nothing to run after it
Running == last.rv \notin NoReturn /\ calls < MaxCalls

\* DAG<int> dag(first, last) for a range of at most MaxNodes values
Init ==
    /\ \E n \in 0..MaxNodes : \E seq \in [1..n -> Values] :
          dag \in insertRange({EmptyDAG}, seq)
    /\ IsTracker(EmptyTracker)
    /\ other = EmptyDAG
    /\ run = NoCall(FALSE)
    /\ last = Call("init", 0, 0, 0, "ok")
    /\ calls = 0

\* dag.insert(v)
Insert(v) ==
    /\ Running
    /\ \E r \in insertOutcomes(dag, v) :
          /\ dag' = r.dag
          /\ last' = Call("insert", v, 0, 0, IF r.rv THEN "true" ELSE "false")
    /\ calls' = calls + 1
    /\ UNCHANGED <<trackerVars, other, run>>

\* the state after dag.link(sv, tv) gave r
LinkedAs(r) ==
    /\ \E d \in r.dags :
          /\ InBounds(d)
          /\ dag' = d
    /\ last' = Call("link", 0, r.src, r.tgt, r.rv)
    /\ calls' = calls + 1
    /\ UNCHANGED <<trackerVars, other, run>>

\* dag.link(sv, tv)
Link(sv, tv) ==
    /\ Running
    /\ LinkedAs(linkValue(dag, sv, tv))

\* the state after dag.unlink(sv, tv) gave r
UnlinkedAs(r) ==
    /\ InBounds(r.dag)
    /\ dag' = r.dag
    /\ last' = Call("unlink", 0, r.src, r.tgt, r.rv)
    /\ calls' = calls + 1
    /\ UNCHANGED <<trackerVars, other, run>>

\* dag.unlink(sv, tv)
Unlink(sv, tv) ==
    /\ Running
    /\ UnlinkedAs(unlinkValue(dag, sv, tv))

\* the state after dag.erase(where) gave r
ErasedAs(i, r) ==
    /\ InBounds(r.dag)
    /\ dag' = r.dag
    /\ last' = Call("erase", 0, dag.nodes_[i], 0, r.rv)
    /\ calls' = calls + 1
    /\ UNCHANGED <<trackerVars, other, run>>

\* dag.erase(where) for the iterator where at position i
Erase(i) ==
    /\ Running
    /\ \E ub \in UndefinedOutcomes : ErasedAs(i, erase(dag, i, ub))

\* the state after dag.linked(sv, tv) for the positions si and ti std::find
\* gives: false when a value is not found
LinkedFound(si, ti) ==
    /\ dag' = IF si = 0 \/ ti = 0 THEN dag
              ELSE linkedLeaves(dag, dag.nodes_[si], dag.nodes_[ti])
    /\ last' = Call("linked", 0,
                    IF si = 0 \/ ti = 0 THEN 0 ELSE dag.nodes_[si],
                    IF si = 0 \/ ti = 0 THEN 0 ELSE dag.nodes_[ti],
                    IF linkedFound(dag, si, ti) THEN "true" ELSE "false")
    /\ calls' = calls + 1
    /\ UNCHANGED <<trackerVars, other, run>>

\* dag.linked(sv, tv)
Linked(sv, tv) ==
    /\ Running
    /\ LinkedFound(find(dag, sv), find(dag, tv))

Next ==
    \/ \E v \in Values : Insert(v)
    \/ \E sv, tv \in Values : Link(sv, tv)
    \/ \E sv, tv \in Values : Unlink(sv, tv)
    \/ \E i \in 1..Len(dag.nodes_) : Erase(i)
    \/ \E sv, tv \in Values : Linked(sv, tv)

Spec == Init /\ [][Next]_vars

\* ------------------------------------------- a DAG erased range by range
\* A call on a DAG that holds a pointer to a deleted node may dereference
\* it; the DAG is followed until it holds one.
RangeRun == calls < MaxCalls /\ Dangling(dag) = {}

\* dag.erase(begin, end) for the iterators at the positions b and e
EraseRange(b, e) ==
    /\ RangeRun
    /\ dag' = eraseRange(dag, b, e)
    /\ last' = Call("eraseRange", 0, b, e, "ok")
    /\ calls' = calls + 1
    /\ UNCHANGED <<trackerVars, other, run>>

\* dag.clear()
DagClear ==
    /\ RangeRun
    /\ dag' = clear(dag)
    /\ last' = Call("clear", 0, 0, 0, "ok")
    /\ calls' = calls + 1
    /\ UNCHANGED <<trackerVars, other, run>>

NextRange ==
    \/ \E v \in Values : RangeRun /\ Insert(v)
    \/ \E sv, tv \in Values : RangeRun /\ Link(sv, tv)
    \/ \E i \in 1..Len(dag.nodes_) : RangeRun /\ Erase(i)
    \/ \E b \in 1..(Len(dag.nodes_) + 1) : \E e \in b..(Len(dag.nodes_) + 1) :
          EraseRange(b, e)
    \/ DagClear

SpecRange == Init /\ [][NextRange]_vars

\* ------------------------------------------------- two DAGs side by side
PairRun == calls < MaxPairCalls

\* DAG<int> dag(first, last), other(first2, last2) for two ranges of at most
\* MaxNodes values
InitPair ==
    /\ \E n \in 0..MaxNodes : \E seq \in [1..n -> Values] :
          dag \in insertRange({EmptyDAG}, seq)
    /\ \E n \in 0..MaxNodes : \E seq \in [1..n -> Values] :
          other \in insertRange({EmptyDAG}, seq)
    /\ IsTracker(EmptyTracker)
    /\ run = NoCall(FALSE)
    /\ last = Call("init", 0, 0, 0, "ok")
    /\ calls = 0

\* other.insert(v)
OtherInsert(v) ==
    /\ PairRun
    /\ \E r \in insertOutcomes(other, v) :
          /\ other' = r.dag
          /\ last' = Call("other.insert", v, 0, 0, IF r.rv THEN "true" ELSE "false")
    /\ calls' = calls + 1
    /\ UNCHANGED <<dag, trackerVars, run>>

\* the state after other.link(sv, tv) gave r
OtherLinkedAs(r) ==
    /\ \E d \in r.dags :
          /\ InBounds(d)
          /\ other' = d
    /\ last' = Call("other.link", 0, r.src, r.tgt, r.rv)
    /\ calls' = calls + 1
    /\ UNCHANGED <<dag, trackerVars, run>>

\* other.link(sv, tv)
OtherLink(sv, tv) ==
    /\ PairRun
    /\ OtherLinkedAs(linkValue(other, sv, tv))

NextPair ==
    \/ \E v \in Values : PairRun /\ Insert(v)
    \/ \E sv, tv \in Values : PairRun /\ Link(sv, tv)
    \/ \E v \in Values : OtherInsert(v)
    \/ \E sv, tv \in Values : OtherLink(sv, tv)

SpecPair == InitPair /\ [][NextPair]_vars

\* ----------------------------- a link step by step, beside a second client
\* The calls of link are made by one client, statement by statement; a
\* second client reads the DAG.  When the clients take the lock, a call
\* holds it from its first statement to its last and the second client reads
\* only while it is free.

\* DAG<int> dag(first, last); the clients take a lock around each call, or
\* none does
InitSteps ==
    /\ \E n \in 0..MaxNodes : \E seq \in [1..n -> Values] :
          dag \in insertRange({EmptyDAG}, seq)
    /\ IsTracker(EmptyTracker)
    /\ other = EmptyDAG
    /\ \E locking \in BOOLEAN : run = NoCall(locking)
    /\ last = Call("init", 0, 0, 0, "ok")
    /\ calls = 0

\* the call under way ends with rv: the lock is released
Return(rv) ==
    /\ run' = [NoCall(run.locking) EXCEPT !.seen = run.seen]
    /\ last' = Call("link", 0, run.src, run.tgt, rv)

\* dag.link(sv, tv) begins, si and ti the positions std::find gives: the
\* exception when a value is not found, else link(iterator, iterator) up to
\* the ScopedFlag on the source
BeginLinkFound(si, ti) ==
    IF si = 0 \/ ti = 0
    THEN /\ last' = Call("link", 0, 0, 0, "value not found")
         /\ UNCHANGED <<dag, run>>
    ELSE /\ \E d \in link(dag, dag.nodes_[si], dag.nodes_[ti]).dags : InBounds(d)
         /\ dag' = [dag EXCEPT !.heap = ScopedFlagSet(@, dag.nodes_[si])]
         /\ run' = [run EXCEPT !.pc = "check", !.src = dag.nodes_[si], !.tgt = dag.nodes_[ti],
                                !.enter = dag.nodes_[ti],
                                !.lock = IF run.locking THEN "writer" ELSE "free"]
         /\ UNCHANGED last

\* dag.link(sv, tv) begins
BeginLink(sv, tv) ==
    /\ run.pc = "idle"
    /\ run.lock = "free"
    /\ calls < MaxStepCalls
    /\ BeginLinkFound(find(dag, sv), find(dag, tv))
    /\ calls' = calls + 1
    /\ UNCHANGED <<trackerVars, other>>

\* the functor and the data of the visit under way: none for the check, the
\* addition of the score of the source after it
Functor == IF run.pc = "check" THEN "none" ELSE "inc"

\* Node::visit is entered on the node run.enter: it throws when the node is
\* flagged; else f is called, the ScopedFlag is set and the loop begins
Enter ==
    /\ run.pc \in {"check", "propagate"}
    /\ run.enter # 0
    /\ IF dag.heap[run.enter].flags_ = VISITED
       THEN /\ run' = [run EXCEPT !.pc = "unwind", !.enter = 0]
            /\ UNCHANGED dag
       ELSE /\ dag' = [dag EXCEPT !.heap =
                          ScopedFlagSet(ApplyF(VisitState(dag.heap), run.enter,
                                               Functor, run.data).heap, run.enter)]
            /\ run' = [run EXCEPT !.enter = 0,
                                   !.stack = Append(@, [node |-> run.enter, i |-> 1])]
    /\ UNCHANGED <<trackerVars, other, last, calls>>

\* the loop over targets_ in the innermost open call of Node::visit, fr: the
\* next target is visited, or the loop ends, the ScopedFlag is cleared and
\* the call returns
LoopOf(fr) ==
    IF fr.i <= Len(dag.heap[fr.node].targets_)
    THEN /\ run' = [run EXCEPT !.enter = dag.heap[fr.node].targets_[fr.i],
                                !.stack[Len(run.stack)].i = fr.i + 1]
         /\ UNCHANGED dag
    ELSE /\ dag' = [dag EXCEPT !.heap = ScopedFlagClear(@, fr.node)]
         /\ run' = [run EXCEPT !.stack = SubSeq(@, 1, Len(@) - 1)]

\* one step of the loop of Node::visit
Loop ==
    /\ run.pc \in {"check", "propagate"}
    /\ run.enter = 0
    /\ run.stack # <<>>
    /\ LoopOf(run.stack[Len(run.stack)])
    /\ UNCHANGED <<trackerVars, other, last, calls>>

\* the visit of the check has returned: the ScopedFlag on the source is
\* cleared
Checked ==
    /\ run.pc = "check"
    /\ run.enter = 0
    /\ run.stack = <<>>
    /\ dag' = [dag EXCEPT !.heap = ScopedFlagClear(@, run.src)]
    /\ run' = [run EXCEPT !.pc = "push"]
    /\ UNCHANGED <<trackerVars, other, last, calls>>

\* source.node()->targets_.push_back(target.node()), and the visit that
\* adds the score of the source is called on the target
Push ==
    /\ run.pc = "push"
    /\ dag' = [dag EXCEPT !.heap[run.src].targets_ = Append(@, run.tgt)]
    /\ run' = [run EXCEPT !.pc = "propagate", !.enter = run.tgt,
                           !.data = dag.heap[run.src].score_]
    /\ UNCHANGED <<trackerVars, other, last, calls>>

\* the visit that adds the scores has returned: std::sort by score, and
\* link returns
Sort ==
    /\ run.pc = "propagate"
    /\ run.enter = 0
    /\ run.stack = <<>>
    /\ \E p \in SortByScore(dag.nodes_, dag.heap) : dag' = [dag EXCEPT !.nodes_ = p]
    /\ Return("ok")
    /\ UNCHANGED <<trackerVars, other, calls>>

\* CircularReference is on its way out: the innermost open call of
\* Node::visit is left and its ScopedFlag cleared; after the last, the
\* ScopedFlag on the source is cleared and link is left
Unwind ==
    /\ run.pc = "unwind"
    /\ IF run.stack # <<>>
       THEN /\ dag' = [dag EXCEPT !.heap = ScopedFlagClear(@, run.stack[Len(run.stack)].node)]
            /\ run' = [run EXCEPT !.stack = SubSeq(@, 1, Len(@) - 1)]
            /\ UNCHANGED last
       ELSE /\ dag' = [dag EXCEPT !.heap = ScopedFlagClear(@, run.src)]
            /\ Return("CircularReference")
    /\ UNCHANGED <<trackerVars, other, calls>>

\* the second client reads the DAG; when the clients take the lock, only
\* while it is free
Read ==
    /\ run.lock = "free"
    /\ run.seen # <<dag>>
    /\ run' = [run EXCEPT !.seen = <<dag>>]
    /\ UNCHANGED <<dag, trackerVars, other, last, calls>>

NextSteps ==
    \/ \E sv, tv \in Values : BeginLink(sv, tv)
    \/ Enter
    \/ Loop
    \/ Checked
    \/ Push
    \/ Sort
    \/ Unwind
    \/ Read

SpecSteps == InitSteps /\ [][NextSteps]_vars

\* ---------------------------------------------------------- tracker state
TrackerRunning == last.rv \notin NoReturn /\ calls < MaxTrackerCalls

\* the tracker after the call gave r = [rv, t]
Returns(op, v, r) ==
    /\ TrackerInBounds(r.t)
    /\ storage_' = r.t.storage_
    /\ dependants_' = r.t.dependants_
    /\ prerequisites_' = r.t.prerequisites_
    /\ selected_' = r.t.selected_
    /\ last' = Call(op, v, 0, 0, r.rv)
    /\ calls' = calls + 1
    /\ UNCHANGED <<dag, other, run>>

\* the nodes of d were allocated back to back: nodes_ of a DAG without links
\* holds them latest first, and their addresses rise or fall all the way
Ascending(seq) == \A i, j \in 1..Len(seq) : i < j => seq[i] < seq[j]
Descending(seq) == \A i, j \in 1..Len(seq) : i < j => seq[i] > seq[j]
BackToBack(t) ==
    \/ Ascending(t.dependants_.nodes_) /\ Ascending(t.prerequisites_.nodes_)
    \/ Descending(t.dependants_.nodes_) /\ Descending(t.prerequisites_.nodes_)

\* Depends<int> deps(i1, i1 + MaxVal) for the values 1..MaxVal, as the tests
\* build it, on a heap that hands out rising or falling addresses
InitTracker ==
    /\ dag = EmptyDAG
    /\ \E t \in trackerInsertRange({EmptyTracker}, [i \in 1..MaxVal |-> i]) :
          BackToBack(t) /\ IsTracker(t)
    /\ other = EmptyDAG
    /\ run = NoCall(FALSE)
    /\ last = Call("init", 0, 0, 0, "ok")
    /\ calls = 0

\* deps.insert(v)
TrackerInsert(v) ==
    /\ TrackerRunning
    /\ \E r \in trackerInsert(deps, v) :
          Returns("insert", v, [rv |-> IF r.rv THEN "true" ELSE "false", t |-> r.t])

\* deps.select(v)
Select(v) ==
    /\ TrackerRunning
    /\ \E r \in selectValue(deps, v) : Returns("select", v, r)

\* deps.select(deps.end())
SelectEnd ==
    /\ TrackerRunning
    /\ Returns("select", 0, select(deps, 0))

\* deps.addPrerequisite(v)
AddPrerequisite(v) ==
    /\ TrackerRunning
    /\ selected_ # 0
    /\ \E r \in addPrerequisiteValue(deps, v) : Returns("addPrerequisite", v, r)

\* deps.addDependant(v)
AddDependant(v) ==
    /\ TrackerRunning
    /\ selected_ # 0
    /\ \E r \in addDependantValue(deps, v) : Returns("addDependant", v, r)

\* deps.removePrerequisite(v)
RemovePrerequisite(v) ==
    /\ TrackerRunning
    /\ selected_ # 0
    /\ Returns("removePrerequisite", v, removePrerequisite(deps, findValue(deps, v)))

\* deps.removeDependant(v)
RemoveDependant(v) ==
    /\ TrackerRunning
    /\ selected_ # 0
    /\ Returns("removeDependant", v, removeDependant(deps, findValue(deps, v)))

\* Depends::erase(const V &) after erase(where) gave r: one element erased
Erased(r) == [rv |-> IF r.rv = "ok" THEN "1" ELSE r.rv, t |-> r.t]

\* deps.erase(v) : Depends::erase(const V &)
TrackerErase(v) ==
    /\ TrackerRunning
    /\ IF findValue(deps, v) = 0
       THEN Returns("erase", v, [rv |-> "0", t |-> deps])
       ELSE \E ub \in UndefinedOutcomes :
               Returns("erase", v, Erased(trackerErase(deps, findValue(deps, v), ub)))

\* deps.clear()
Clear ==
    /\ TrackerRunning
    /\ Returns("clear", 0, [rv |-> "ok", t |-> trackerClear(deps)])

\* deps.erase(deps.begin(), deps.end())
EraseAll ==
    /\ TrackerRunning
    /\ \E ub \in UndefinedOutcomes : Returns("eraseAll", 0, trackerEraseRange(deps, ub))

NextTracker ==
    \/ \E v \in Values : TrackerInsert(v)
    \/ \E v \in Values : Select(v)
    \/ SelectEnd
    \/ \E v \in Values : AddPrerequisite(v)
    \/ \E v \in Values : AddDependant(v)
    \/ \E v \in Values : RemovePrerequisite(v)
    \/ \E v \in Values : RemoveDependant(v)
    \/ \E v \in Values : TrackerErase(v)
    \/ Clear
    \/ EraseAll

SpecTracker == InitTracker /\ [][NextTracker]_vars

\* ------------------------------------------- tracker state, a shorter run
\* the client stops after MaxShortCalls calls
ShortRun == calls < MaxShortCalls

NextShort ==
    \/ \E v \in Values : ShortRun /\ TrackerInsert(v)
    \/ \E v \in Values : ShortRun /\ Select(v)
    \/ ShortRun /\ SelectEnd
    \/ \E v \in Values : ShortRun /\ AddPrerequisite(v)
    \/ \E v \in Values : ShortRun /\ AddDependant(v)
    \/ \E v \in Values : ShortRun /\ RemovePrerequisite(v)
    \/ \E v \in Values : ShortRun /\ RemoveDependant(v)
    \/ \E v \in Values : ShortRun /\ TrackerErase(v)
    \/ ShortRun /\ Clear
    \/ ShortRun /\ EraseAll

SpecShort == InitTracker /\ [][NextShort]_vars

\* ------------------------------------------------------------- properties
\* the last call returned, normally or by throwing
Returned == last.rv \notin NoReturn

\* the targets of the nodes of S
Targets(d, S) ==
    UNION { { d.heap[n].targets_[i] : i \in 1..Len(d.heap[n].targets_) } : n \in S }

RECURSIVE ReachableFrom(_, _)
\* the nodes a path of zero or more edges leads to from a node of S
ReachableFrom(d, S) ==
    IF Targets(d, S) \subseteq S THEN S ELSE ReachableFrom(d, S \cup Targets(d, S))

\* number of edges from node n to node m
EdgeCount(d, n, m) ==
    Cardinality({ i \in 1..Len(d.heap[n].targets_) : d.heap[n].targets_[i] = m })

\* the edges of d: <<n, i>> is the i-th edge out of node n
Edges(d) == UNION { { <<n, i>> : i \in 1..Len(d.heap[n].targets_) } : n \in DOMAIN d.heap }

RECURSIVE PathCount(_, _, _)
RECURSIVE PathCountFrom(_, _, _, _)
\* number of paths from node n to node m in an acyclic d, two edges between
\* the same nodes making two paths; the empty path leads from m to m
PathCount(d, n, m) == IF n = m THEN 1 ELSE PathCountFrom(d, n, 1, m)
PathCountFrom(d, n, i, m) ==
    IF i > Len(d.heap[n].targets_) THEN 0
    ELSE PathCount(d, d.heap[n].targets_[i], m) + PathCountFrom(d, n, i + 1, m)

\* C1: after any sequence of insert, link, unlink and erase calls, those that
\* fail included, no node of the DAG is reachable from itself by a path of
\* one or more edges.
C1_Acyclic ==
    \A n \in DOMAIN dag.heap : n \notin ReachableFrom(dag, Targets(dag, {n}))

\* C1 witness: the last of MaxCalls calls, a link that would have closed a
\* cycle over an edge of the DAG, was refused
C1_Witness ==
    /\ last.op = "link" /\ last.rv = "CircularReference"
    /\ EdgeCount(dag, last.tgt, last.src) > 0
    /\ calls = MaxCalls

\* C2: link(s, t) for two nodes present fails with CircularReference exactly
\* when s is reachable from t by zero or more existing edges; in every other
\* case it succeeds and adds one edge s -> t, and no other edge changes.
C2_LinkFailsIffReachable ==
    [][(last'.op = "link" /\ last'.src # 0) =>
         /\ last'.rv \in {"ok", "CircularReference"}
         /\ (last'.rv = "CircularReference") <=>
               (last'.src \in ReachableFrom(dag, {last'.tgt}))
         /\ (last'.rv = "ok") =>
               \A n, m \in DOMAIN dag.heap :
                   EdgeCount(dag', n, m) =
                       EdgeCount(dag, n, m)
                       + (IF n = last'.src /\ m = last'.tgt THEN 1 ELSE 0)]_vars

\* C2 witness: a link was refused whose source is reachable from its target
\* only through another node
C2_Witness ==
    /\ last.op = "link" /\ last.rv = "CircularReference"
    /\ last.src # last.tgt
    /\ EdgeCount(dag, last.tgt, last.src) = 0
    /\ last.src \in ReachableFrom(dag, {last.tgt})

\* C3: a link that fails with CircularReference leaves the DAG as it was:
\* the same node sequence, values, scores, edges and flags.
C3_FailedLinkChangesNothing ==
    [][(last'.op = "link" /\ last'.rv = "CircularReference") => dag' = dag]_vars

\* C3 witness: a link was refused on a DAG of three nodes chained by two
\* edges, as in 1 -> 2, 2 -> 3 and then 3 -> 1
C3_Witness ==
    /\ last.op = "link" /\ last.rv = "CircularReference"
    /\ Len(dag.nodes_) = 3
    /\ Cardinality(Edges(dag)) = 2
    /\ \E n \in DOMAIN dag.heap : dag.heap[n].score_ = 3

\* C4: no two nodes of a DAG hold equal values.
C4_ValuesUnique ==
    \A n, m \in DOMAIN dag.heap : n # m => dag.heap[n].value_ # dag.heap[m].value_

\* C4, the failing case: insert(v) returned true for a value v that a node
\* with a score above 1 held already, no score being below 1
C4_DuplicateInserted ==
    /\ last.op = "insert" /\ last.rv = "true"
    /\ \A n \in DOMAIN dag.heap : dag.heap[n].score_ >= 1
    /\ \E n \in DOMAIN dag.heap : dag.heap[n].value_ = last.val /\ dag.heap[n].score_ > 1

\* there is an edge from a node of value a to a node of value b
DirectEdge(d, a, b) ==
    \E n, m \in DOMAIN d.heap :
        /\ d.heap[n].value_ = a
        /\ d.heap[m].value_ = b
        /\ EdgeCount(d, n, m) > 0

\* C5: after every call of a tracker that returned, for all tracked A and B
\* there is a direct edge A -> B in dependants_ exactly when there is a
\* direct edge B -> A in prerequisites_.
C5_EdgesMirrored ==
    Returned =>
        \A a, b \in DOMAIN storage_ :
            DirectEdge(dependants_, a, b) <=> DirectEdge(prerequisites_, b, a)

\* number of edges from a node of value a to a node of value b
EdgeCountOfValues(d, a, b) ==
    Cardinality({ e \in Edges(d) :
                    /\ d.heap[e[1]].value_ = a
                    /\ d.heap[d.heap[e[1]].targets_[e[2]]].value_ = b })

\* the scores of d, value by value
ScoresOfValues(d) == { <<d.heap[n].value_, d.heap[n].score_>> : n \in DOMAIN d.heap }

\* the edges of d, value by value
EdgesOfValues(d) ==
    { <<d.heap[e[1]].value_, d.heap[d.heap[e[1]].targets_[e[2]]].value_,
        EdgeCountOfValues(d, d.heap[e[1]].value_, d.heap[d.heap[e[1]].targets_[e[2]]].value_)>> :
        e \in Edges(d) }

\* both DAGs, the store and the selection are after the call what they were
TrackerUnchanged ==
    /\ EdgesOfValues(dependants_') = EdgesOfValues(dependants_)
    /\ EdgesOfValues(prerequisites_') = EdgesOfValues(prerequisites_)
    /\ ScoresOfValues(dependants_') = ScoresOfValues(dependants_)
    /\ ScoresOfValues(prerequisites_') = ScoresOfValues(prerequisites_)
    /\ storage_' = storage_
    /\ selected_' = selected_

\* the call added an edge from -> to to d
Gained(d, e, from, to) == EdgeCountOfValues(e, from, to) = EdgeCountOfValues(d, from, to) + 1

\* C6: addPrerequisite(v) and addDependant(v) either add the edge to both
\* DAGs, or fail with CircularReference and leave the DAGs, the store and the
\* selection as they were.
C6_AddIsAllOrNothing ==
    [][/\ (last'.op = "addPrerequisite") =>
            \/ /\ last'.rv = "ok"
               /\ Gained(prerequisites_, prerequisites_', selected_, findValue(deps', last'.val))
               /\ Gained(dependants_, dependants_', findValue(deps', last'.val), selected_)
            \/ last'.rv = "CircularReference" /\ TrackerUnchanged
       /\ (last'.op = "addDependant") =>
            \/ /\ last'.rv = "ok"
               /\ Gained(dependants_, dependants_', selected_, findValue(deps', last'.val))
               /\ Gained(prerequisites_, prerequisites_', findValue(deps', last'.val), selected_)
            \/ last'.rv = "CircularReference" /\ TrackerUnchanged]_vars

\* C7: after every call that returned, for all tracked v1 and v2 the assert
\* of depends(v1, v2) holds: v1 is reachable from v2 in dependants_ exactly
\* when v2 is reachable from v1 in prerequisites_.
C7_DependsAssertionHolds ==
    Returned =>
        \A v1, v2 \in DOMAIN storage_ : dependsAssertion(deps, v1, v2)

\* there is a path of one or more edges from a node of value a to one of value b
PathOfValues(d, a, b) ==
    \E n, m \in DOMAIN d.heap :
        /\ d.heap[n].value_ = a
        /\ d.heap[m].value_ = b
        /\ m \in ReachableFrom(d, Targets(d, {n}))

\* what a call of depends(target, source) comes to
DependsResult(t, target, source) ==
    IF ~dependsAssertion(t, target, source) THEN "assertion failed"
    ELSE IF depends(t, target, source) THEN "true" ELSE "false"

\* C8: after every call that returned, for all distinct tracked target and
\* source, depends(target, source) is true when target is reachable from
\* source by dependant edges and false when not; depends(a, b) and
\* depends(b, a) are never both true; and after a successful
\* addPrerequisite(v), depends(S, v) is true and depends(v, S) false.
C8_DependsIsReachability ==
    Returned =>
        /\ \A a, b \in DOMAIN storage_ :
              a # b =>
                /\ DependsResult(deps, a, b) =
                      (IF PathOfValues(dependants_, b, a) THEN "true" ELSE "false")
                /\ ~(DependsResult(deps, a, b) = "true" /\ DependsResult(deps, b, a) = "true")
        /\ (last.op = "addPrerequisite" /\ last.rv = "ok") =>
              /\ DependsResult(deps, selected_, findValue(deps, last.val)) = "true"
              /\ DependsResult(deps, findValue(deps, last.val), selected_) = "false"

\* C9 as stated: a successful link(A, B) adds the score of A once to B and
\* to every node reachable from B, and leaves the other scores alone.
C9_ScoreAddedOnce ==
    [][(last'.op = "link" /\ last'.rv = "ok") =>
          \A n \in DOMAIN dag.heap :
              dag'.heap[n].score_ =
                  dag.heap[n].score_
                  + (IF n \in ReachableFrom(dag, {last'.tgt})
                     THEN dag.heap[last'.src].score_ ELSE 0)]_vars

\* C9 amended: a successful link(A, B) adds to the score of every node the
\* score of A once for each path that leads from B to the node (B itself has
\* one, the empty path; a node not reachable from B has none).
C9_ScoreAddedPerPath ==
    [][(last'.op = "link" /\ last'.rv = "ok") =>
          \A n \in DOMAIN dag.heap :
              dag'.heap[n].score_ =
                  dag.heap[n].score_
                  + dag.heap[last'.src].score_ * PathCount(dag, last'.tgt, n)]_vars

\* C9 witness: a link succeeded whose target leads to another node by two paths
C9_Witness ==
    /\ last.op = "link" /\ last.rv = "ok"
    /\ \E n \in DOMAIN dag.heap : PathCount(dag, last.tgt, n) >= 2

\* C10: after every call that returned, the nodes of the DAG are in nodes_
\* in non-decreasing order of score.
C10_SortedByScore ==
    Returned =>
        \A i, j \in 1..Len(dag.nodes_) :
            i < j => ~NodeLess(dag.heap[dag.nodes_[j]], dag.heap[dag.nodes_[i]])

\* C10, the failing case: an unlink that removed an edge has left a node of
\* a higher score before one of a lower score, no score being below 1
C10_UnsortedAfterUnlink ==
    /\ last.op = "unlink" /\ last.rv = "true"
    /\ \A n \in DOMAIN dag.heap : dag.heap[n].score_ >= 1
    /\ ~C10_SortedByScore

\* C11: after every call that returned, every node of the DAG has a score of
\* at least 1 (a score that has wrapped around is kept as a negative number).
C11_ScoreAtLeastOne ==
    Returned => \A n \in DOMAIN dag.heap : dag.heap[n].score_ >= 1

\* C11, the failing case: an unlink of two nodes that no edge joined returned
\* false and left a node with the score 0, or with a score that has wrapped
C11_ScoreLostByFailedUnlink ==
    /\ last.op = "unlink" /\ last.rv = "false" /\ last.src # last.tgt
    /\ dag.heap[last.tgt].score_ < 1

\* C12: an erase that returned has removed the node it was given and no
\* other: the size drops by one, no edge leads to the node any more, and the
\* edges between the nodes that remain are those there were before.
C12_EraseRemovesItsNode ==
    [][(last'.op = "erase" /\ last'.rv = "ok") =>
          /\ DOMAIN dag'.heap = DOMAIN dag.heap \ {last'.src}
          /\ Len(dag'.nodes_) = Len(dag.nodes_) - 1
          /\ \A n \in DOMAIN dag'.heap : EdgeCount(dag', n, last'.src) = 0
          /\ \A n, m \in DOMAIN dag.heap \ {last'.src} :
                n \in DOMAIN dag'.heap /\ m \in DOMAIN dag'.heap
                    => EdgeCount(dag', n, m) = EdgeCount(dag, n, m)]_vars

\* C12, the failing case: an erase returned and the node it was given is
\* still in the DAG, another one having been deleted
C12_OtherNodeErased ==
    /\ last.op = "erase" /\ last.rv = "ok"
    /\ last.src \in DOMAIN dag.heap
    /\ \A n \in DOMAIN dag.heap : dag.heap[n].score_ >= 1

\* C13: a tracker erase(v) of a tracked value that returned has taken v out
\* of the store and its alias out of both DAGs, has cleared the selection if
\* it was v and left it alone if not, and has left the other values in both
\* DAGs with the edges there were among them.
C13_TrackerEraseRemovesValue ==
    [][(last'.op = "erase" /\ last'.rv = "1") =>
          /\ storage_' = [c \in DOMAIN storage_ \ {findValue(deps, last'.val)} |-> storage_[c]]
          /\ Aliases(dependants_') = Aliases(dependants_) \ {findValue(deps, last'.val)}
          /\ Aliases(prerequisites_') = Aliases(prerequisites_) \ {findValue(deps, last'.val)}
          /\ selected_' = IF selected_ = findValue(deps, last'.val) THEN 0 ELSE selected_
          /\ \A a, b \in DOMAIN storage_' :
                /\ EdgeCountOfValues(dependants_', a, b) = EdgeCountOfValues(dependants_, a, b)
                /\ EdgeCountOfValues(prerequisites_', a, b) =
                      EdgeCountOfValues(prerequisites_, a, b)]_vars

\* C13, the failing case: a tracker erase(v) returned 1 and a DAG still holds
\* the alias of v while a value that is still tracked has lost its node
C13_AliasOfOtherValueErased ==
    /\ last.op = "erase" /\ last.rv = "1"
    /\ Stale(deps) # {}
    /\ \E c \in DOMAIN storage_ : c \notin Aliases(dependants_) \cap Aliases(prerequisites_)

\* C14: the selection is none at the start; a select that succeeded leaves
\* its value selected; clear and an erase of the selected value leave none
\* selected; insert, addPrerequisite, addDependant, removePrerequisite,
\* removeDependant and an erase of another value leave the selection as it
\* was; and the value selected is always one of the store.
C14_SelectionStateMachine ==
    /\ selected_ = 0
    /\ [](selected_ # 0 => selected_ \in DOMAIN storage_)
    /\ [][ /\ (last'.op = "select" /\ last'.rv = "ok") =>
                selected_' # 0 /\ selected_' = findValue(deps', last'.val)
           /\ (last'.op = "clear") => selected_' = 0
           /\ (last'.op = "erase" /\ last'.rv \in {"0", "1"}) =>
                selected_' = IF selected_ = findValue(deps, last'.val) THEN 0 ELSE selected_
           /\ (last'.op \in {"insert", "addPrerequisite", "addDependant",
                              "removePrerequisite", "removeDependant"}) =>
                selected_' = selected_]_vars

\* C14 witness: a select has succeeded on a tracker that holds nothing but
\* the value selected, the store of three values having been emptied before
C14_Witness ==
    /\ last.op = "select" /\ last.rv = "ok"
    /\ selected_ # 0 /\ DOMAIN storage_ = {selected_}
    /\ storage_[selected_] = last.val

\* the tracked values whose alias the node of the selection leads to in d: by
\* one edge, or with all by a path of one or more edges
TargetsOfSelection(d, all) ==
    { storage_[c] : c \in { c \in DOMAIN storage_ :
                              IF all THEN PathOfValues(d, selected_, c)
                              ELSE DirectEdge(d, selected_, c) } }

\* C15: after every call that returned with a value selected,
\* getPrerequisites(all) and getDependants(all) return the values that are
\* the targets of the selection in prerequisites_ and dependants_ (with all:
\* the values a path of one or more edges leads to), never the selection
\* itself, and leave the nodes of the DAGs as they were.
C15_QueriesReturnTargets ==
    (Returned /\ selected_ # 0) =>
        \A all \in BOOLEAN : \A ub \in UndefinedResults :
            /\ getPrerequisites(deps, all, ub) =
                  [rv |-> QueryResult(FALSE, FALSE, TargetsOfSelection(prerequisites_, all)),
                   heap |-> prerequisites_.heap]
            /\ getDependants(deps, all, ub) =
                  [rv |-> QueryResult(FALSE, FALSE, TargetsOfSelection(dependants_, all)),
                   heap |-> dependants_.heap]
            /\ storage_[selected_] \notin getPrerequisites(deps, all, ub).rv.retval
            /\ storage_[selected_] \notin getDependants(deps, all, ub).rv.retval

\* C15, the failing case: a value is selected whose node in prerequisites_
\* has for target the alias of an element that is no longer in the store
C15_TargetOfSelectionGone ==
    /\ Returned /\ selected_ # 0
    /\ find(prerequisites_, selected_) # 0
    /\ \E c \in directTargets(prerequisites_,
                               prerequisites_.nodes_[find(prerequisites_, selected_)]) :
          c \notin DOMAIN storage_

\* the query that ended as r returned a set that holds the value v
InResult(r, v) == ~r.rv.thrown /\ ~r.rv.crashed /\ v \in r.rv.retval

\* C16: after every call that returned, for all distinct tracked a and b: b
\* is in getDependants(true) with a selected exactly when a is in
\* getPrerequisites(true) with b selected, and exactly when depends(b, a)
\* is true.
C16_ClosuresAgree ==
    Returned =>
        \A a, b \in DOMAIN storage_ :
            a # b =>
                \A ub \in UndefinedResults :
                    /\ InResult(getDependants(select(deps, a).t, TRUE, ub), storage_[b])
                          <=> InResult(getPrerequisites(select(deps, b).t, TRUE, ub), storage_[a])
                    /\ InResult(getDependants(select(deps, a).t, TRUE, ub), storage_[b])
                          <=> (DependsResult(deps, b, a) = "true")

\* C16, the failing case: after a call that returned a tracked value b leads
\* to a tracked value a in prerequisites_ while a does not lead to b in
\* dependants_
C16_ClosuresDisagree ==
    /\ Returned
    /\ \E a, b \in DOMAIN storage_ :
          /\ a # b
          /\ PathOfValues(prerequisites_, b, a)
          /\ ~PathOfValues(dependants_, a, b)

\* the ways select(b) followed by addPrerequisite(a) may end on the tracker t
SelectAddPrerequisite(t, b, a) ==
    UNION { addPrerequisiteValue(r.t, a) : r \in selectValue(t, b) }

\* the ways select(b) followed by addDependant(a) may end on the tracker t
SelectAddDependant(t, b, a) ==
    UNION { addDependantValue(r.t, a) : r \in selectValue(t, b) }

\* the call that led to the next state ended like m: both succeeded and left
\* the same edges and scores in both DAGs, or both threw CircularReference
SameAs(m) ==
    /\ last'.rv \in {"ok", "CircularReference"}
    /\ m.rv = last'.rv
    /\ (m.rv = "ok") =>
          /\ EdgesOfValues(m.t.dependants_) = EdgesOfValues(dependants_')
          /\ EdgesOfValues(m.t.prerequisites_) = EdgesOfValues(prerequisites_')
          /\ ScoresOfValues(m.t.dependants_) = ScoresOfValues(dependants_')
          /\ ScoresOfValues(m.t.prerequisites_) = ScoresOfValues(prerequisites_')

\* C17: an addDependant(b) with a selected ends as select(b) followed by
\* addPrerequisite(a) ends from the same state, and an addPrerequisite(b)
\* with a selected as select(b) followed by addDependant(a): both throw
\* CircularReference, or both succeed with the same edges and scores in
\* both DAGs.
C17_AddDependantMirrorsAddPrerequisite ==
    [][ /\ (last'.op = "addDependant") =>
              \E m \in SelectAddPrerequisite(deps, last'.val, storage_[selected_]) : SameAs(m)
        /\ (last'.op = "addPrerequisite") =>
              \E m \in SelectAddDependant(deps, last'.val, storage_[selected_]) : SameAs(m)
      ]_vars

\* C17, the failing case: an addDependant or addPrerequisite has ended
\* neither well nor with CircularReference, a DAG having no node for the value
C17_AddFoundNoNode ==
    /\ last.op \in {"addDependant", "addPrerequisite"}
    /\ last.rv = "value not found"

\* C18: a removePrerequisite(v) or removeDependant(v) of a tracked value v,
\* not the selection, that no direct edge joins to the selection in prerequisites_ (in
\* dependants_ for removeDependant) leaves the edges and the scores of both
\* DAGs, the store and the selection as they were.
C18_RemoveUnlinkedIsNoOp ==
    [][ /\ ( /\ last'.op = "removePrerequisite"
              /\ findValue(deps, last'.val) \notin {0, selected_}
              /\ ~DirectEdge(prerequisites_, selected_, findValue(deps, last'.val)) )
              => TrackerUnchanged
        /\ ( /\ last'.op = "removeDependant"
              /\ findValue(deps, last'.val) \notin {0, selected_}
              /\ ~DirectEdge(dependants_, selected_, findValue(deps, last'.val)) )
              => TrackerUnchanged
      ]_vars

\* C18, the failing case: on a tracker that never had an edge, a
\* removePrerequisite, the second call made, has returned and left a score
\* below 1 in both DAGs
C18_ScoresChangedByRemove ==
    /\ last.op = "removePrerequisite" /\ last.rv = "ok"
    /\ calls = 2
    /\ findValue(deps, last.val) \notin {0, selected_}
    /\ \E n \in DOMAIN prerequisites_.heap : prerequisites_.heap[n].score_ < 1
    /\ \E n \in DOMAIN dependants_.heap : dependants_.heap[n].score_ < 1

\* what depends(target, source) comes to on the tracker t, for two values
DependsOfValues(t, target, source) ==
    DependsResult(t, findValue(t, target), findValue(t, source))

\* the remove that ended as r has returned and left, for every pair of
\* distinct values, the answer of depends there was before the step
RestoredBy(r) ==
    /\ r.rv = "ok"
    /\ \A a, b \in Values :
          a # b => DependsOfValues(r.t, a, b) = DependsOfValues(deps, a, b)

\* C19: after an addDependant(v) that succeeded, removeDependant(v) returns
\* and depends answers for every pair of distinct values what it answered
\* before the add; likewise for addPrerequisite(v) and removePrerequisite(v).
C19_RemoveUndoesAdd ==
    [][ /\ (last'.op = "addDependant" /\ last'.rv = "ok") =>
              \A r \in {removeDependant(deps', findValue(deps', last'.val))} : RestoredBy(r)
        /\ (last'.op = "addPrerequisite" /\ last'.rv = "ok") =>
              \A r \in {removePrerequisite(deps', findValue(deps', last'.val))} : RestoredBy(r)
      ]_vars

\* C19 witness: an addDependant(v) has succeeded, v depends on the selection,
\* and no longer does once removeDependant(v) is applied
C19_Witness ==
    /\ last.op = "addDependant" /\ last.rv = "ok"
    /\ DependsResult(deps, findValue(deps, last.val), selected_) = "true"
    /\ removeDependant(deps, findValue(deps, last.val)).rv = "ok"
    /\ DependsResult(removeDependant(deps, findValue(deps, last.val)).t,
                     findValue(deps, last.val), selected_) = "false"

\* C20: linked(s, t) for two distinct nodes of the DAG returns true exactly
\* when a path of one or more edges leads from s to t, and leaves the DAG
\* as it was: the same node sequence, edges, scores and flags.
C20_LinkedIsReachability ==
    [][(last'.op = "linked" /\ last'.src # 0 /\ last'.src # last'.tgt) =>
          /\ (last'.rv = "true") <=>
                (last'.tgt \in ReachableFrom(dag, Targets(dag, {last'.src})))
          /\ last'.rv \in {"true", "false"}
          /\ dag' = dag]_vars

\* C20 witness: the last of MaxCalls calls, linked, has returned true for two
\* nodes that no edge joins directly
C20_Witness ==
    /\ last.op = "linked" /\ last.rv = "true"
    /\ last.src # last.tgt
    /\ EdgeCount(dag, last.src, last.tgt) = 0
    /\ calls = MaxCalls

\* C21: link(source, target) by value, where source or target is not in the
\* DAG, fails with "value not found" and leaves the DAG as it was: no node
\* inserted, no edge, score or order changed; unlink by value with an absent
\* value fails the same way and changes nothing.
C21_AbsentValueNotFound ==
    [][\A sv, tv \in Values :
          (find(dag, sv) = 0 \/ find(dag, tv) = 0) =>
            /\ Link(sv, tv) => (last'.rv = "value not found" /\ dag' = dag)
            /\ Unlink(sv, tv) => (last'.rv = "value not found" /\ dag' = dag)]_vars

\* C21 witness: an unlink by value has failed with "value not found" on a
\* DAG that has an edge
C21_Witness ==
    /\ last.op = "unlink" /\ last.rv = "value not found"
    /\ Edges(dag) # {}

\* d holds each distinct value of seq exactly once, each with score 1, and
\* has no edges
BuiltFrom(d, seq) ==
    /\ { d.heap[n].value_ : n \in DOMAIN d.heap } = { seq[i] : i \in 1..Len(seq) }
    /\ Cardinality(DOMAIN d.heap) = Cardinality({ seq[i] : i \in 1..Len(seq) })
    /\ Len(d.nodes_) = Cardinality(DOMAIN d.heap)
    /\ { d.nodes_[i] : i \in 1..Len(d.nodes_) } = DOMAIN d.heap
    /\ \A n \in DOMAIN d.heap : d.heap[n].score_ = 1 /\ d.heap[n].targets_ = <<>>

\* the call has added one node that holds v, with score 1 and no edge to or
\* from it, has returned true and has left the other nodes as they were
InsertedOne(v) ==
    /\ last'.rv = "true"
    /\ Len(dag'.nodes_) = Len(dag.nodes_) + 1
    /\ \E id \in DOMAIN dag'.heap \ DOMAIN dag.heap :
          /\ DOMAIN dag'.heap = DOMAIN dag.heap \cup {id}
          /\ { dag'.nodes_[i] : i \in 1..Len(dag'.nodes_) } =
                { dag.nodes_[i] : i \in 1..Len(dag.nodes_) } \cup {id}
          /\ dag'.heap[id].value_ = v
          /\ dag'.heap[id].score_ = 1
          /\ dag'.heap[id].targets_ = <<>>
          /\ \A n \in DOMAIN dag.heap : EdgeCount(dag', n, id) = 0
    /\ \A n \in DOMAIN dag.heap : dag'.heap[n] = dag.heap[n]

\* C22: insert(v) of a value not present in the DAG adds exactly one node
\* holding v with score 1 and no incoming or outgoing edge, returns true,
\* increases the size by one and changes no other node's score or edges; a
\* DAG built from a sequence of values holds each distinct value exactly
\* once (duplicates skipped), each with score 1, with no edges.
C22_InsertAddsOneNode ==
    /\ \A n \in 0..MaxNodes : \A seq \in [1..n -> Values] :
          \A d \in insertRange({EmptyDAG}, seq) : BuiltFrom(d, seq)
    /\ [][\A v \in Values : (find(dag, v) = 0 /\ Insert(v)) => InsertedOne(v)]_vars

\* C22 witness: an insert has returned true on a DAG that has an edge
C22_Witness ==
    /\ last.op = "insert" /\ last.rv = "true"
    /\ Edges(dag) # {}

\* every node of d is a node of e with the same targets, and the nodes e has
\* besides have no targets and are the target of no node
SameEdges(d, e) ==
    /\ DOMAIN d.heap \subseteq DOMAIN e.heap
    /\ \A n \in DOMAIN d.heap : e.heap[n].targets_ = d.heap[n].targets_
    /\ \A n \in DOMAIN e.heap \ DOMAIN d.heap :
          /\ e.heap[n].targets_ = <<>>
          /\ \A m \in DOMAIN e.heap : EdgeCount(e, m, n) = 0

\* C23: select(v) by value always succeeds: if v is absent it is inserted
\* first (the size grows by exactly one and v gets a node in both DAGs), if
\* v is present the store is unchanged; in both cases the selection
\* afterwards is v and no edge of either DAG changes.
C23_SelectByValue ==
    [][(last'.op = "select" /\ last'.val # 0) =>
          /\ last'.rv = "ok"
          /\ selected_' \in DOMAIN storage_'
          /\ storage_'[selected_'] = last'.val
          /\ IF findValue(deps, last'.val) = 0
             THEN /\ selected_' \in Aliases(dependants_')
                  /\ selected_' \in Aliases(prerequisites_')
                  /\ Cardinality(DOMAIN storage_') = Cardinality(DOMAIN storage_) + 1
                  /\ \A c \in DOMAIN storage_ : c \in DOMAIN storage_' /\ storage_'[c] = storage_[c]
             ELSE /\ storage_' = storage_
                  /\ dependants_' = dependants_
                  /\ prerequisites_' = prerequisites_
          /\ SameEdges(dependants_, dependants_')
          /\ SameEdges(prerequisites_, prerequisites_')]_vars

\* C23 witness: the third call, a select, has selected a value that is at
\* another address than the one it was constructed at, in a store of
\* MaxVal - 1 values: two values were erased and the select has inserted one
C23_Witness ==
    /\ last.op = "select" /\ last.rv = "ok" /\ last.val # 0
    /\ calls = 3
    /\ Cardinality(DOMAIN storage_) = MaxVal - 1
    /\ storage_[selected_] # selected_

\* the nodes of d alias the elements of the store of t, one node for each
OneNodeForEach(t, d) ==
    /\ Aliases(d) = DOMAIN t.storage_
    /\ Cardinality(DOMAIN d.heap) = Cardinality(DOMAIN t.storage_)
    /\ Len(d.nodes_) = Cardinality(DOMAIN t.storage_)

\* C24: after every call that returned, the values of the store, the values
\* aliased by the nodes of prerequisites_ and those aliased by the nodes of
\* dependants_ are the same set, each value having exactly one node per DAG;
\* insert(v) reports true exactly when v was absent and is otherwise a
\* no-op, and erase(v) by value returns 1 if v was tracked and 0 otherwise.
C24_StoreAndAliasesAgree ==
    /\ [](Returned => OneNodeForEach(deps, prerequisites_) /\ OneNodeForEach(deps, dependants_))
    /\ [][ /\ (last'.op = "insert") =>
                /\ (last'.rv = "true") <=> (findValue(deps, last'.val) = 0)
                /\ (last'.rv = "false") => deps' = deps
           /\ (last'.op = "erase" /\ Returned') =>
                last'.rv = (IF findValue(deps, last'.val) # 0 THEN "1" ELSE "0")]_vars

\* C24, the failing case: after an erase that returned 1, dependants_ has one
\* node for each element of the store, but a node that aliases none of them
\* and none that aliases the selected element
C24_NodeOfTrackedValueMissing ==
    /\ last.op = "erase" /\ last.rv = "1"
    /\ Len(dependants_.nodes_) = Cardinality(DOMAIN storage_)
    /\ selected_ # 0
    /\ selected_ \notin Aliases(dependants_)

\* a and b hold the same values, each once, with the same edges between them
\* and the same scores
SameGraph(a, b) ==
    /\ Aliases(a) = Aliases(b)
    /\ Cardinality(DOMAIN a.heap) = Cardinality(Aliases(a))
    /\ Cardinality(DOMAIN b.heap) = Cardinality(Aliases(b))
    /\ EdgesOfValues(a) = EdgesOfValues(b)
    /\ ScoresOfValues(a) = ScoresOfValues(b)

\* C25: two DAGs that hold the same set of values with the same edges
\* between them (and the same scores) compare equal with ==, whatever order
\* the values were inserted in and the edges were linked in.
C25_EqualityIgnoresOrder ==
    SameGraph(dag, other) => DAGEqual(dag, other)

\* C25, the failing case: after MaxPairCalls calls two DAGs hold the same
\* values, scores and edges, one edge at least, and dag == other is false
C25_SameGraphsUnequal ==
    /\ calls = MaxPairCalls
    /\ SameGraph(dag, other)
    /\ Edges(dag) # {}
    /\ ~DAGEqual(dag, other)

\* C26: operator< of two DAGs is a strict order consistent with ==: a < b
\* and b < a are never both true, and a == b implies that neither a < b nor
\* b < a.
C26_LessIsStrict ==
    /\ ~(DAGLess(dag, other) /\ DAGLess(other, dag))
    /\ DAGEqual(dag, other) => (~DAGLess(dag, other) /\ ~DAGLess(other, dag))

\* C26, the failing case: dag < other and other < dag are both true for two
\* DAGs whose first nodes have the same score
C26_LessBothWays ==
    /\ DAGLess(dag, other) /\ DAGLess(other, dag)
    /\ dag.heap[dag.nodes_[1]].score_ = other.heap[other.nodes_[1]].score_
    /\ last.op = "link" /\ last.rv = "ok"

\* the tracker t is empty: nothing in the store, no node and no edge in
\* either DAG, nothing selected
IsEmpty(t) ==
    /\ DOMAIN t.storage_ = {}
    /\ t.dependants_.nodes_ = <<>> /\ DOMAIN t.dependants_.heap = {}
    /\ t.prerequisites_.nodes_ = <<>> /\ DOMAIN t.prerequisites_.heap = {}
    /\ t.selected_ = 0

\* C27: from any tracker state, clear() and erase(begin(), end()) each
\* return and leave the tracker empty: the store has size 0, both DAGs have
\* no nodes and no edges, and nothing is selected.
C27_ClearAndEraseAllEmpty ==
    [][ /\ (last'.op = "clear") => (last'.rv = "ok" /\ IsEmpty(deps'))
        /\ (last'.op = "eraseAll") => (last'.rv = "ok" /\ IsEmpty(deps'))]_vars

\* C27, the failing case: erase(begin(), end()) has returned and the store
\* is empty, but a DAG still has a node
C27_NodesLeftByEraseAll ==
    /\ last.op = "eraseAll" /\ last.rv = "ok"
    /\ DOMAIN storage_ = {}
    /\ dependants_.nodes_ # <<>> \/ prerequisites_.nodes_ # <<>>

\* d comes back equal from an archive, whatever addresses its nodes get
DAGRoundTrip(d) ==
    \A alloc \in Allocations(Len(d.nodes_)) : DAGEqual(d, deserialize(serialize(d), alloc))

\* the addresses a heap that hands out rising or falling addresses gives to
\* the nodes of two DAGs of n nodes each
BackToBackAllocations(n) ==
    { ab \in Allocations(n) \X Allocations(n) :
        \/ Ascending(ab[1]) /\ Ascending(ab[2])
        \/ Descending(ab[1]) /\ Descending(ab[2]) }

\* the trackers that loading the archive ar of t may give, once the value
\* selected in t is selected in them
Reloaded(t, ar) ==
    { select(trackerDeserialize(ar, ab[1], ab[2]), rank(t, t.selected_)).t :
        ab \in BackToBackAllocations(Len(ar.storage_)) }

\* the trackers an archive of t gives back; writing the alias of an element
\* that is gone reads freed memory: nothing defined is loaded from it
Archived(t) == IF Stale(t) # {} THEN {} ELSE Reloaded(t, trackerSerialize(t))

\* what getPrerequisites(all) and getDependants(all) answer on t
Answers(t, all, ub) == <<getPrerequisites(t, all, ub).rv, getDependants(t, all, ub).rv>>

\* what they may answer on a tracker of R, the trackers an archive gave
\* back: when it gave none that is defined, anything
ReloadedAnswers(R, all, ub) ==
    IF R = {} THEN { <<u, u>> : u \in UndefinedResults }
    ELSE { Answers(r, all, ub) : r \in R }

\* C28: a reachable DAG comes back equal (==) from an enumeration of its
\* nodes in iteration order with their values, scores and successor lists,
\* rebuilt without cycle detection; and a tracker rebuilt in this way answers
\* getPrerequisites and getDependants like the original.
C28_RoundTrip ==
    /\ DAGRoundTrip(dag)
    /\ (Returned /\ selected_ # 0) =>
          \A R \in {Archived(deps)} : \A all \in BOOLEAN : \A ub \in UndefinedResults :
              \A a \in ReloadedAnswers(R, all, ub) : a = Answers(deps, all, ub)

\* C28, the failing case: a value is selected in a tracker whose DAGs hold
\* the alias of an element that an erase has taken out of the store
C28_ArchiveOfStaleAlias ==
    /\ Returned /\ selected_ # 0
    /\ Stale(deps) # {}
    /\ selected_ \in Aliases(dependants_) \cap Aliases(prerequisites_)

RECURSIVE PathsFrom(_, _, _)
\* number of paths that lead from a node of S to node n, the empty path
\* from n to n included
PathsFrom(d, S, n) ==
    IF S = {} THEN 0
    ELSE PathCount(d, CHOOSE m \in S : TRUE, n)
         + PathsFrom(d, S \ {CHOOSE m \in S : TRUE}, n)

\* the score of every node of d is the number of paths that end at it
ScoresArePathCounts(d) ==
    \A n \in DOMAIN d.heap : d.heap[n].score_ = PathsFrom(d, DOMAIN d.heap, n)

ScoresRiseAlongEdges(d) ==
    \A e \in Edges(d) :
        ScoreLess(d.heap[e[1]].score_, d.heap[d.heap[e[1]].targets_[e[2]]].score_)

\* for every edge a -> b of d, a comes before b in nodes_
SourcesComeFirst(d) ==
    \A e \in Edges(d) :
        \A i, j \in 1..Len(d.nodes_) :
            (d.nodes_[i] = e[1] /\ d.nodes_[j] = d.heap[e[1]].targets_[e[2]]) => i < j

\* C30: after every call that returned, the iteration order is a
\* topological order: for every edge a -> b the score of b is strictly
\* greater than the score of a, and a is met before b when iterating from
\* begin to end.
C30_TopologicalOrder ==
    Returned => (ScoresRiseAlongEdges(dag) /\ SourcesComeFirst(dag))

\* C30, the failing case: an unlink that removed an edge has left the target
\* of another edge before its source in nodes_, the scores rising along
\* every edge
C30_TargetBeforeSource ==
    /\ last.op = "unlink" /\ last.rv = "true"
    /\ ScoresRiseAlongEdges(dag)
    /\ ~SourcesComeFirst(dag)

\* the unlink that ended as u has returned true and left every node with
\* the score and the edges it has in d
UndoneBy(d, u) ==
    /\ ~u.thrown /\ u.rv
    /\ DOMAIN u.dag.heap = DOMAIN d.heap
    /\ \A n \in DOMAIN d.heap :
          /\ u.dag.heap[n].score_ = d.heap[n].score_
          /\ \A m \in DOMAIN d.heap : EdgeCount(u.dag, n, m) = EdgeCount(d, n, m)

\* C31: unlink is the inverse of link: when link(s, t) has succeeded, an
\* unlink(s, t) called next returns true, removes exactly one edge s -> t,
\* and leaves every node with the score and the outgoing edges it had before
\* the link.
C31_UnlinkUndoesLink ==
    [][(last'.op = "link" /\ last'.rv = "ok") =>
          /\ EdgeCount(dag', last'.src, last'.tgt) = EdgeCount(dag, last'.src, last'.tgt) + 1
          /\ \A u \in {unlink(dag', last'.src, last'.tgt)} : UndoneBy(dag, u)]_vars

\* C31 witness: the last of MaxCalls calls, a link, has succeeded between two
\* nodes that an edge joined already, its target leading on to a third node
C31_Witness ==
    /\ last.op = "link" /\ last.rv = "ok"
    /\ calls = MaxCalls
    /\ EdgeCount(dag, last.src, last.tgt) = 2
    /\ dag.heap[last.tgt].targets_ # <<>>
    /\ unlink(dag, last.src, last.tgt).rv

\* C32: no dangling edges: in every reachable DAG state every edge stored in
\* the successor list of a node points to a node that is in the same DAG;
\* this holds after the erase of a single node, after the erase of a range
\* of nodes and after clear.
C32_NoDanglingEdges == Dangling(dag) = {}

\* C32, the failing case: an erase of a range that is not the whole DAG has
\* returned and a node that is left has for target a node of the range
C32_EdgeToErasedNode ==
    /\ last.op = "eraseRange" /\ last.rv = "ok"
    /\ dag.nodes_ # <<>>
    /\ Dangling(dag) # {}

\* C33: there is at most one edge per ordered pair of nodes: a link(s, t)
\* on a pair that has a direct edge s -> t already adds no second edge and
\* changes no score, so that a single unlink(s, t) removes the direct link
\* between s and t.
C33_AtMostOneEdge ==
    /\ [](\A n, m \in DOMAIN dag.heap : EdgeCount(dag, n, m) <= 1)
    /\ [][(last'.op = "link" /\ last'.src # 0 /\ EdgeCount(dag, last'.src, last'.tgt) > 0) =>
            /\ EdgeCount(dag', last'.src, last'.tgt) = EdgeCount(dag, last'.src, last'.tgt)
            /\ \A n \in DOMAIN dag.heap : dag'.heap[n].score_ = dag.heap[n].score_
            /\ ~linkedDirectly(unlink(dag', last'.src, last'.tgt).dag, last'.src, last'.tgt)]_vars

\* C33, the failing case: a link has succeeded on a pair of nodes that an
\* edge joined already; there are two edges now, the score of the target has
\* grown, and after one unlink the source still has the target for target
C33_SecondEdgeAdded ==
    /\ last.op = "link" /\ last.rv = "ok"
    /\ EdgeCount(dag, last.src, last.tgt) = 2
    /\ dag.heap[last.tgt].score_ = 3
    /\ unlink(dag, last.src, last.tgt).rv
    /\ linkedDirectly(unlink(dag, last.src, last.tgt).dag, last.src, last.tgt)

\* C34: no value depends on itself: after every call that returned,
\* depends(v, v) is false for every tracked value v, and linked(n, n) is
\* false for every node n of a DAG.
C34_NothingDependsOnItself ==
    Returned =>
        /\ \A v \in DOMAIN storage_ : DependsResult(deps, v, v) = "false"
        /\ \A n \in DOMAIN dependants_.heap : ~linked(dependants_, n, n)
        /\ \A n \in DOMAIN prerequisites_.heap : ~linked(prerequisites_, n, n)

\* C34, the failing case: a value has been selected in a tracker whose DAGs
\* never had an edge, and depends answers true for that value and itself
C34_DependsOnItself ==
    /\ last.op = "select" /\ last.rv = "ok" /\ calls = 1
    /\ Edges(dependants_) = {} /\ Edges(prerequisites_) = {}
    /\ DependsResult(deps, selected_, selected_) = "true"

\* C35: a select that is given the end position raises the invalid-selection
\* error and leaves the tracker as it was: the value that was selected
\* before the call is still selected after it, and the store and both DAGs
\* are unchanged.
C35_FailedSelectChangesNothing ==
    [][(last'.op = "select" /\ last'.val = 0) =>
          /\ last'.rv = "Cannot select end"
          /\ selected_' = selected_
          /\ storage_' = storage_
          /\ dependants_' = dependants_
          /\ prerequisites_' = prerequisites_]_vars

\* C35, the failing case: the third call, a select of the end position, has
\* failed and nothing is selected, in a tracker where a prerequisite was
\* added to the selection by the call before
C35_SelectionLost ==
    /\ last.op = "select" /\ last.val = 0 /\ last.rv = "Cannot select end"
    /\ calls = 3
    /\ Edges(prerequisites_) # {}
    /\ selected_ = 0

\* C36: queries and removals that name a value not in the container do not
\* fail and do not change state: depends(target, source) returns false when
\* target or source is not tracked, linked(source, target) by value on a DAG
\* returns false when either value is absent, and removePrerequisite(v) and
\* removeDependant(v) for an untracked v return and leave the tracker as it
\* was (v is not inserted).
C36_AbsentValuesAreHarmless ==
    /\ [](Returned =>
            /\ \A a, b \in Values :
                  (findValue(deps, a) = 0 \/ findValue(deps, b) = 0) => ~dependsValue(deps, a, b)
            /\ \A c, e \in Cells :
                  /\ (find(dependants_, c) = 0 \/ find(dependants_, e) = 0)
                        => ~linkedValue(dependants_, c, e)
                  /\ (find(prerequisites_, c) = 0 \/ find(prerequisites_, e) = 0)
                        => ~linkedValue(prerequisites_, c, e))
    /\ [][( /\ last'.op \in {"removePrerequisite", "removeDependant"}
             /\ findValue(deps, last'.val) = 0 )
           => (last'.rv = "ok" /\ deps' = deps)]_vars

\* C36 witness: a removePrerequisite of a value that is not tracked has
\* returned, on a tracker where the selection has a prerequisite
C36_Witness ==
    /\ last.op = "removePrerequisite" /\ last.rv = "ok"
    /\ findValue(deps, last.val) = 0
    /\ selected_ # 0
    /\ Edges(prerequisites_) # {}
    /\ \E b \in DOMAIN storage_ : ~dependsValue(deps, last.val, storage_[b])

C37_EveryCallReturns == last.rv \notin NoReturn

\* the calls of link made step by step, no step of a call that is under way
\* being put off for ever
SpecStepsFair == SpecSteps /\ WF_vars(Enter \/ Loop \/ Checked \/ Push \/ Sort \/ Unwind)

\* the traversals of link finish: a call of link that has begun comes to
\* its end, the visits of the check and of the addition of the scores done
LinkCallEnds == (run.pc # "idle") ~> (run.pc = "idle")

\* C37, the failing case: erase was called for a node without targets that
\* is the last target of another node; the loop that removes the edges to it
\* runs past the end of that vector and the call has not returned
C37_EraseRunsPastEnd ==
    /\ last.op = "erase" /\ last.rv \in UndefinedOutcomes
    /\ last.src \in DOMAIN dag.heap
    /\ dag.heap[last.src].targets_ = <<>>
    /\ StaleEnd(dag, last.src)
    /\ \A n \in DOMAIN dag.heap : n \notin ReachableFrom(dag, Targets(dag, {n}))

\* d is as a call of link leaves a DAG: no flag set, every score the number
\* of paths that end at the node, nodes_ in the order of the scores
Settled(d) ==
    /\ \A n \in DOMAIN d.heap : d.heap[n].flags_ = 0
    /\ ScoresArePathCounts(d)
    /\ \A i, j \in 1..Len(d.nodes_) :
          i < j => ~NodeLess(d.heap[d.nodes_[j]], d.heap[d.nodes_[i]])

\* C38: link is not atomic: a second client that reads the DAG without
\* serialization can see an intermediate state of a call link(A, B), in
\* which the edge A -> B is present and the score of B (or of a node
\* reachable from B) is not yet increased or nodes_ not yet sorted; when
\* every call runs under one exclusive lock, what the second client reads
\* is never such a state: no flag is set in it, every score counts the
\* paths that end at its node, and nodes_ is in the order of the scores.
C38_LockHidesIntermediateStates ==
    (run.locking /\ run.seen # <<>>) => Settled(run.seen[1])

\* C38 witness: without the lock, the second client has read the DAG in the
\* middle of the second call of link, after the edge from the source to the
\* target was pushed and before the score of the target, still 1, was
\* increased
C38_Witness ==
    /\ ~run.locking
    /\ run.pc = "propagate" /\ calls = MaxStepCalls
    /\ run.seen = <<dag>>
    /\ EdgeCount(dag, run.src, run.tgt) = 1
    /\ dag.heap[run.tgt].score_ = 1
    /\ Edges(dag) # {<<run.src, 1>>}

====
